---- MODULE Spec2Model ----
(***************************************************************************)
(* A state-machine model of the simulation infrastructure of the           *)
(* simulations-course examples: runners, orchestrators, scenario grids and *)
(* the small numeric helpers they call.                                    *)
(*                                                                         *)
(* Numeric library calls (numpy sampling, OLS, Wald tests) are abstracted  *)
(* as deterministic functions of the random stream that feeds them; the    *)
(* stream is identified by its seed, or by a nondeterministically chosen   *)
(* entropy value when the seed is None.                                    *)
(***************************************************************************)
EXTENDS Integers, Sequences, FiniteSets, TLC

\* ------------------------------------------------------------------ bounds
MaxScenarios == 2
MaxWorkers == 2
MaxEntropy == 1
NumSims == 2

\* ------------------------------------------------------------------- state
\* Orchestrators of example 2.
VARIABLES
    scenarios,          \* self.scenarios of both orchestrators
    max_workers,        \* run_all(max_workers)
    seq_pc,             \* sequential run_all: "run", "returned", "raised"
    seq_results,        \* summary_results of the sequential orchestrator
    pc,                 \* parallel run_all: "wait", "submit", "collect", "exit", "returned", "raised"
    fstate,             \* per future: "new", "pending", "running", "done", "failed"
    fvalue,             \* per future: its result or exception
    fobjs,              \* per future: the dgp/test/runner objects its task built
    attempts,           \* per future: how many times a worker started its task
    yielded,            \* futures as_completed has handed to the loop
    summary_results,    \* summary_results of the parallel orchestrator
    appended_by,        \* per append to summary_results: the thread and the future
    raised,             \* exception run_all propagates, or None
    next_obj            \* allocator of object identities

orchVars == <<scenarios, max_workers, seq_pc, seq_results, pc, fstate, fvalue,
              fobjs, attempts, yielded, summary_results, appended_by, raised,
              next_obj>>

\* Runner of example 1 (two successive simulate calls with equal arguments).
VARIABLES
    r_dgp,              \* runner.dgp (the same for both calls)
    r_estimator_type,   \* class and parameters of runner.estimator
    r_n_sim,            \* simulate(n_sim, ...)
    r_n_obs,            \* simulate(..., n_obs, ...)
    r_first_seed,       \* simulate(..., first_seed)
    r_pc,               \* per call: "idle", "sample", "fit", "record", "done", "raised"
    r_sim_id,           \* per call: loop variable sim_id
    r_xy,               \* per call: the x, y last drawn
    r_beta1_hat,        \* per call: estimator.beta1_hat
    r_errors,           \* per call: runner.errors
    r_seeds,            \* per call: the seeds passed to dgp.sample, in order
    r_sampled,          \* per call: the data drawn in each replication
    r_trace             \* per call: the operations performed, in order

runnerVars == <<r_dgp, r_estimator_type, r_n_sim, r_n_obs, r_first_seed, r_pc,
                r_sim_id, r_xy, r_beta1_hat, r_errors, r_seeds, r_sampled,
                r_trace>>

\* Orchestrator of example 1.
VARIABLES
    o1_scenarios,       \* self.scenarios
    o1_pc,              \* run_all: "loop", "returned"
    o1_i,               \* scenarios already run by the for loop
    o1_summary,         \* self.summary_results, a dictionary keyed by name
    o1_runner_means     \* per scenario run: errors.mean() of its runner

orch1Vars == <<o1_scenarios, o1_pc, o1_i, o1_summary, o1_runner_means>>

\* Module-level construction of the scenario lists (scenarios.py).
VARIABLES
    g_example,          \* which scenarios.py is executed: 1 or 2
    g_lists,            \* the three component lists handed to product()
    g_pc,               \* "start", "build", "done"
    g_idx,              \* position of product() in the three lists
    g_scenarios         \* the list built so far

gridVars == <<g_example, g_lists, g_pc, g_idx, g_scenarios>>

\* SKImbalancedTwoClassesDGP of example 5.
VARIABLES
    d_n_train_samples,  \* self.n_train_samples
    d_n_test_samples,   \* self.n_test_samples
    d_seed,             \* sample(seed)
    d_pc,               \* "new", "sampled", "raised"
    d_split             \* lengths of the arrays sample returned

dgp5Vars == <<d_n_train_samples, d_n_test_samples, d_seed, d_pc, d_split>>

\* asymptotic_ci_variance of example 3.
VARIABLES
    c_data,             \* the sample
    c_alpha,            \* alpha, in thousandths
    c_pc,               \* "call", "done"
    c_ci                \* the (lower, upper) returned, in thousandths

ciVars == <<c_data, c_alpha, c_pc, c_ci>>

\* run_simulations of example 3.
VARIABLES
    s3_true_vars,       \* true_vars
    s3_n_simulations,   \* n_simulations
    s3_n_obs_list,      \* n_obs_list
    s3_alpha,           \* alpha, in thousandths
    s3_seed,            \* seed
    s3_pc,              \* "enter", "loop", "returned"
    s3_i,               \* position of the loop over n_obs_list (from 1)
    s3_j,               \* position of the loop over true_vars (from 1)
    s3_rng,             \* values the generator rng has produced so far
    s3_errors,          \* errors of the current (n_obs, true_var)
    s3_lengths,         \* lengths of the current (n_obs, true_var)
    s3_coverage,        \* coverage of the current (n_obs, true_var)
    s3_results,         \* results
    s3_cis,             \* history: the intervals of the current (n_obs, true_var)
    s3_cis_of           \* history: the intervals behind each stored entry

sim3Vars == <<s3_true_vars, s3_n_simulations, s3_n_obs_list, s3_alpha, s3_seed,
              s3_pc, s3_i, s3_j, s3_rng, s3_errors, s3_lengths, s3_coverage,
              s3_results, s3_cis, s3_cis_of>>

\* GMMSolver of example 4.
VARIABLES
    gm_process_func,     \* self.process_func: None or the function's name
    gm_estimated_params, \* self.estimated_params
    gm_last,             \* outcome of the last call on the solver
    gm_result,           \* the OptimizeResult of the last minimize call
    gm_raised,           \* the exception the last call raised, or None
    gm_returned,         \* the value the last process_solution call returned
    gm_calls,            \* calls made on the solver so far
    gm_before,           \* history: estimated_params when the last call began
    gm_solution,         \* history: x of the last successful optimization
    gm_initial           \* history: estimated_params as __init__ left it

gmmVars == <<gm_process_func, gm_estimated_params, gm_last, gm_result,
             gm_raised, gm_returned, gm_calls, gm_before, gm_solution,
             gm_initial>>

\* generate_data of example 4.
VARIABLES
    gd_num_units,       \* num_units
    gd_beta_mean,       \* beta_mean, in hundredths
    gd_pc,              \* "draw", "plus", "minus", "combine", "returned"
    gd_ind_effects,     \* ind_effects
    gd_data_plus,       \* data_plus (a list of rows)
    gd_data_minus,      \* data_minus (a list of rows)
    gd_data             \* the frame generate_data returns

genVars == <<gd_num_units, gd_beta_mean, gd_pc, gd_ind_effects, gd_data_plus,
             gd_data_minus, gd_data>>

\* SimulationOrchestrator and SimulationRunner of example 5.
VARIABLES
    o5_scenarios,       \* orchestrator.scenarios
    o5_n_workers,       \* orchestrator.n_workers
    o5_pc,              \* orchestrator.run_all: "loop", "returned", "raised"
    o5_i,               \* scenarios the for loop has finished
    o5_summary,         \* orchestrator.summary_results
    r5_pc,              \* runner.run_all: "off", "collect", "unwind"
    r5_results,         \* runner.results
    r5_collected,       \* seeds whose future the for loop has taken, in order
    r5_exc,             \* exception propagating out of runner.run_all, or None
    t5_state,           \* per task (scenario, seed): "new", "pending", "running", "done", "failed"
    t5_value,           \* per task: the dictionary returned or the exception
    t5_runs,            \* per task: how many times a worker ran it
    t5_finished         \* history: the tasks in the order they finished

run5Vars == <<o5_scenarios, o5_n_workers, o5_pc, o5_i, o5_summary, r5_pc,
              r5_results, r5_collected, r5_exc, t5_state, t5_value, t5_runs,
              t5_finished>>

\* One _run_single_scenario call of example 2, replication by replication.
VARIABLES
    q_scenario,         \* the scenario
    q_pc,               \* "construct", "simulate", "returned", "raised"
    q_dgp,              \* the BivariateLinearModel built, or None
    q_test,             \* the test built, or None
    q_sim_id,           \* loop variable of simulate
    q_test_decisions,   \* runner.test_decisions
    q_result,           \* what summarize_results returned, or None
    q_made              \* history: the decisions the test made, in order

scen2Vars == <<q_scenario, q_pc, q_dgp, q_test, q_sim_id, q_test_decisions,
               q_result, q_made>>

\* run_simulation_for_seed of example 4.
VARIABLES
    v_seed,             \* seed
    v_n_replications,   \* n_replications
    v_n_values,         \* n_values
    v_pc,               \* "loop", "returned", "raised"
    v_i,                \* position of the loop over n_values (from 1)
    v_replication,      \* loop variable replication
    v_results,          \* results (a list of rows)
    v_datasets          \* history: n_units and RNG seed of each dataset generated

seedRunVars == <<v_seed, v_n_replications, v_n_values, v_pc, v_i, v_replication,
                 v_results, v_datasets>>

\* main of example 4.
VARIABLES
    m4_seeds,           \* SEEDS
    m4_n_replications,  \* N_REPLICATIONS
    m4_n_values,        \* N_VALUES
    m4_max_workers,     \* processes of ProcessPoolExecutor() (os.cpu_count())
    m4_pc,              \* "solve", "submit", "collect", "unwind", "concat",
                        \* "done", "raised"
    m4_pool,            \* the with block: "none", "open", "exited", "unwound"
    m4_mu_sigma_params, \* mu_sigma_params
    m4_futures,         \* state of the future of each position of SEEDS
    m4_value,           \* result or exception held by each future
    m4_submits,         \* history: executor.submit calls per position of SEEDS
    m4_runs,            \* history: times each task was started
    m4_yielded,         \* positions of the futures as_completed has yielded
    m4_all_results,     \* all_results
    m4_exc              \* exception that left main

main4Vars == <<m4_seeds, m4_n_replications, m4_n_values, m4_max_workers, m4_pc,
               m4_pool, m4_mu_sigma_params, m4_futures, m4_value, m4_submits,
               m4_runs, m4_yielded, m4_all_results, m4_exc>>

\* Two run_simulations calls of example 3 with equal arguments.
VARIABLES
    p3_calls,           \* number of the call being executed (1 or 2)
    p3_first            \* history: the dictionary the first call returned

repro3Vars == <<p3_calls, p3_first>>

vars == <<orchVars, runnerVars, orch1Vars, gridVars, dgp5Vars, ciVars,
          sim3Vars, gmmVars, genVars, run5Vars, scen2Vars, seedRunVars,
          main4Vars, repro3Vars>>

\* What the operations of one component leave alone.
notOrchVars == <<runnerVars, orch1Vars, gridVars, dgp5Vars, ciVars,
                 sim3Vars, gmmVars, genVars, run5Vars, scen2Vars,
                 seedRunVars, main4Vars, repro3Vars>>
notRunnerVars == <<orchVars, orch1Vars, gridVars, dgp5Vars, ciVars,
                   sim3Vars, gmmVars, genVars, run5Vars, scen2Vars,
                   seedRunVars, main4Vars, repro3Vars>>
notOrch1Vars == <<orchVars, runnerVars, gridVars, dgp5Vars, ciVars,
                  sim3Vars, gmmVars, genVars, run5Vars, scen2Vars,
                  seedRunVars, main4Vars, repro3Vars>>
notGridVars == <<orchVars, runnerVars, orch1Vars, dgp5Vars, ciVars,
                 sim3Vars, gmmVars, genVars, run5Vars, scen2Vars,
                 seedRunVars, main4Vars, repro3Vars>>
notDgp5Vars == <<orchVars, runnerVars, orch1Vars, gridVars, ciVars,
                 sim3Vars, gmmVars, genVars, run5Vars, scen2Vars,
                 seedRunVars, main4Vars, repro3Vars>>
notCiVars == <<orchVars, runnerVars, orch1Vars, gridVars, dgp5Vars,
               sim3Vars, gmmVars, genVars, run5Vars, scen2Vars,
               seedRunVars, main4Vars, repro3Vars>>
notSim3Vars == <<orchVars, runnerVars, orch1Vars, gridVars, dgp5Vars,
                 ciVars, gmmVars, genVars, run5Vars, scen2Vars,
                 seedRunVars, main4Vars, repro3Vars>>
notGmmVars == <<orchVars, runnerVars, orch1Vars, gridVars, dgp5Vars,
                ciVars, sim3Vars, genVars, run5Vars, scen2Vars,
                seedRunVars, main4Vars, repro3Vars>>
notGenVars == <<orchVars, runnerVars, orch1Vars, gridVars, dgp5Vars,
                ciVars, sim3Vars, gmmVars, run5Vars, scen2Vars,
                seedRunVars, main4Vars, repro3Vars>>
notRun5Vars == <<orchVars, runnerVars, orch1Vars, gridVars, dgp5Vars,
                 ciVars, sim3Vars, gmmVars, genVars, scen2Vars,
                 seedRunVars, main4Vars, repro3Vars>>
notScen2Vars == <<orchVars, runnerVars, orch1Vars, gridVars, dgp5Vars,
                  ciVars, sim3Vars, gmmVars, genVars, run5Vars,
                  seedRunVars, main4Vars, repro3Vars>>
notSeedRunVars == <<orchVars, runnerVars, orch1Vars, gridVars, dgp5Vars,
                    ciVars, sim3Vars, gmmVars, genVars, run5Vars,
                    scen2Vars, main4Vars, repro3Vars>>
notMain4Vars == <<orchVars, runnerVars, orch1Vars, gridVars, dgp5Vars,
                  ciVars, sim3Vars, gmmVars, genVars, run5Vars, scen2Vars,
                  seedRunVars, repro3Vars>>
notRepro3Vars == <<orchVars, runnerVars, orch1Vars, gridVars, dgp5Vars,
                   ciVars, sim3Vars, gmmVars, genVars, run5Vars, scen2Vars,
                   seedRunVars, main4Vars>>
notRepro3Sim3Vars == <<orchVars, runnerVars, orch1Vars, gridVars, dgp5Vars,
                       ciVars, gmmVars, genVars, run5Vars, scen2Vars,
                       seedRunVars, main4Vars>>

\* ------------------------------------------------------- Python-like values
None == <<>>
Some(x) == <<x>>

Range(f) == {f[i] : i \in DOMAIN f}

RECURSIVE SumSeq(_)
SumSeq(s) == IF s = <<>> THEN 0 ELSE Head(s) + SumSeq(Tail(s))

RECURSIVE Gcd(_, _)
Gcd(a, b) == IF b = 0 THEN a ELSE Gcd(b, a % b)

Abs(x) == IF x < 0 THEN -x ELSE x
Sign(x) == IF x < 0 THEN -1 ELSE IF x > 0 THEN 1 ELSE 0

NaN == <<"nan">>

\* np.ndarray.mean(), kept exact as a reduced fraction
\* <<numerator, denominator>>; the mean of an empty array is nan.
Mean(xs) ==
    IF Len(xs) = 0 THEN NaN
    ELSE LET n == SumSeq(xs)
             g == Gcd(Abs(n), Len(xs))
         IN  <<n \div g, Len(xs) \div g>>

CountIn(x, s) == Cardinality({i \in DOMAIN s : s[i] = x})

\* Two lists hold the same multiset of elements.
SameMultiset(s, t) ==
    /\ Len(s) = Len(t)
    /\ \A x \in Range(s) \cup Range(t) : CountIn(x, s) = CountIn(x, t)

\* ====================================================================
\* Example 2: joint vs. multiple tests
\* ====================================================================

\* --------------------------------------------------- runner of example 2

\* Python truthiness of the first_seed argument (int | None).
Truthy(first_seed) == first_seed # None /\ first_seed[1] # 0

\* The seed expression of SimulationRunner.simulate:
\*     first_seed + sim_id if first_seed else None
SeedFor(first_seed, sim_id) ==
    IF Truthy(first_seed) THEN Some(first_seed[1] + sim_id) ELSE None

\* np.random.default_rng(seed): a seeded generator replays the stream of its
\* seed, an unseeded one draws fresh entropy from the OS; a negative seed is
\* rejected with ValueError.
RngRaises(seed) == seed # None /\ seed[1] < 0
StreamOf(seed, entropy) == IF seed = None THEN entropy ELSE seed[1]

\* BivariateLinearModel.__init__ takes exactly common_coef_val and covar_corr.
DgpCtorRaises(dgp_params) ==
    DOMAIN dgp_params # {"common_coef_val", "covar_corr"}

\* BivariateLinearModel.sample(n_obs, seed): the data drawn, identified by the
\* parameters and the stream.
Sample2(dgp_params, n_obs, seed, entropy) ==
    [coef |-> dgp_params.common_coef_val, rho |-> dgp_params.covar_corr,
     n |-> n_obs, draw |-> StreamOf(seed, entropy)]

\* The OLS fit needs at least one observation.
TestRaises(data) == data.n = 0

\* Abstract test statistic of the OLS fit on the data.
Stat(data) == data.coef * data.coef * data.n + (data.draw % 3)

\* WaldWithOLS.test / BonferronigMultipleTWithOLS.test: the decision stored.
Decision(test, data) ==
    IF test = "WaldWithOLS" THEN (IF Stat(data) >= 1 THEN 1 ELSE 0)
    ELSE (IF Stat(data) >= 2 THEN 1 ELSE 0)

TestName(test) == IF test = "WaldWithOLS" THEN "Wald" ELSE "Bonferroni t"

\* SimulationRunner.simulate of example 2, replication by replication;
\* es[k] is the entropy the OS hands out should replication k-1 be unseeded.
\* Returns the stage that raised, or the decisions stored.
RECURSIVE Simulate2(_, _, _, _)
Simulate2(s, es, sim_id, decisions) ==
    IF sim_id >= s.n_simulations THEN [ok |-> TRUE, decisions |-> decisions]
    ELSE LET seed == SeedFor(s.first_seed, sim_id)
             data == Sample2(s.dgp_params, s.sample_size, seed, es[sim_id + 1])
         IN  IF RngRaises(seed) THEN [ok |-> FALSE, exc |-> "sample"]
             ELSE IF TestRaises(data) THEN [ok |-> FALSE, exc |-> "test"]
             ELSE Simulate2(s, es, sim_id + 1,
                            Append(decisions, Decision(s.test, data)))

\* SimulationRunner.summarize_results of example 2.
SummarizeResults(s, decisions) ==
    [test |-> TestName(s.test),
     rho |-> s.dgp_params.covar_corr,
     common_coef_val |-> s.dgp_params.common_coef_val,
     power |-> Mean(decisions)]

\* _run_single_scenario: construct DGP and test, simulate, summarize.
RunSingleScenario(s, es) ==
    IF DgpCtorRaises(s.dgp_params) THEN [ok |-> FALSE, exc |-> "dgp"]
    ELSE LET r == Simulate2(s, es, 0, <<>>)
         IN  IF r.ok THEN [ok |-> TRUE, value |-> SummarizeResults(s, r.decisions)]
             ELSE r

\* --------------------------------------------------- scenarios of example 2

Scenario2(coef, test, size, seed) ==
    [name |-> "", dgp |-> "BivariateLinearModel",
     dgp_params |-> [common_coef_val |-> coef, covar_corr |-> 0],
     test |-> test, sample_size |-> size,
     n_simulations |-> NumSims, first_seed |-> Some(seed)]

\* The scenarios the orchestrators are run on: well-formed ones, one with
\* first_seed = 0, and one failing at each stage (a dgp_params dictionary
\* without covar_corr, a negative seed, an empty sample).
ScenarioPool ==
    { Scenario2(1, "WaldWithOLS", 2, 1),
      Scenario2(0, "BonferronigMultipleTWithOLS", 2, 1),
      Scenario2(0, "WaldWithOLS", 2, 0),
      [Scenario2(1, "WaldWithOLS", 2, 1) EXCEPT !.dgp_params = [common_coef_val |-> 1]],
      Scenario2(1, "WaldWithOLS", 2, -1),
      Scenario2(1, "BonferronigMultipleTWithOLS", 0, 1) }

ScenarioLists == UNION {[1..n -> ScenarioPool] : n \in 0..MaxScenarios}

EntropyVectors == [1..NumSims -> 0..MaxEntropy]

\* The entropy a run of the scenario can observe: only an unseeded generator
\* reads it.
EntropyChoices(s) ==
    IF Truthy(s.first_seed) THEN {[k \in 1..NumSims |-> 0]} ELSE EntropyVectors

N == Len(scenarios)

\* ------------------------------------------- SimulationOrchestratorSequential

\* One iteration of the for loop of run_all: run the scenario, append.
SeqStep ==
    /\ UNCHANGED notOrchVars
    /\ seq_pc = "run"
    /\ LET i == Len(seq_results) + 1
       IN  IF i > N
           THEN /\ seq_pc' = "returned"
                /\ UNCHANGED seq_results
           ELSE \E es \in EntropyChoices(scenarios[i]) :
                  LET r == RunSingleScenario(scenarios[i], es)
                  IN  IF r.ok
                      THEN /\ seq_results' = Append(seq_results, r.value)
                           /\ UNCHANGED seq_pc
                      ELSE /\ seq_pc' = "raised"
                           /\ UNCHANGED seq_results
    /\ pc' = IF seq_pc' = "run" THEN pc ELSE "submit"
    /\ UNCHANGED <<scenarios, max_workers, fstate, fvalue, fobjs, attempts,
                   yielded, summary_results, appended_by, raised, next_obj>>

\* --------------------------------------------- SimulationOrchestratorParallel

Finished(i) == fstate[i] \in {"done", "failed"}
Running == {i \in 1..N : fstate[i] = "running"}
Pending == {i \in 1..N : fstate[i] = "pending"}

\* executor.submit for the next scenario of the dictionary comprehension.
Submit ==
    /\ UNCHANGED notOrchVars
    /\ pc = "submit"
    /\ LET new == {i \in 1..N : fstate[i] = "new"}
       IN  IF new = {}
           THEN /\ pc' = "collect"
                /\ UNCHANGED fstate
           ELSE LET i == CHOOSE j \in new : \A k \in new : j <= k
                IN  /\ fstate' = [fstate EXCEPT ![i] = "pending"]
                    /\ UNCHANGED pc
    /\ UNCHANGED <<scenarios, max_workers, seq_pc, seq_results, fvalue, fobjs,
                   attempts, yielded, summary_results, appended_by, raised,
                   next_obj>>

\* The objects a task constructs: dgp, estimator (the test) and runner.
SharedObjects(i, base) == [dgp |-> 1, test |-> 2, runner |-> 3]
NewObjects(i, base) == [dgp |-> base, test |-> base + 1, runner |-> base + 2]

\* A worker thread takes the oldest queued task and begins
\* _run_single_scenario: it constructs the DGP, the test and the runner.
WorkerStart(i) ==
    /\ UNCHANGED notOrchVars
    /\ fstate[i] = "pending"
    /\ \A j \in Pending : i <= j
    /\ Cardinality(Running) < max_workers
    /\ attempts' = [attempts EXCEPT ![i] = @ + 1]
    /\ IF DgpCtorRaises(scenarios[i].dgp_params)
       THEN /\ fstate' = [fstate EXCEPT ![i] = "failed"]
            /\ fvalue' = [fvalue EXCEPT ![i] = [ok |-> FALSE, exc |-> "dgp"]]
            /\ UNCHANGED <<fobjs, next_obj>>
       ELSE /\ fstate' = [fstate EXCEPT ![i] = "running"]
            /\ fobjs' = [fobjs EXCEPT ![i] = NewObjects(i, next_obj)]
            /\ next_obj' = next_obj + 3
            /\ UNCHANGED fvalue
    /\ UNCHANGED <<scenarios, max_workers, seq_pc, seq_results, pc, yielded,
                   summary_results, appended_by, raised>>

\* The worker runs runner.simulate and runner.summarize_results; the future
\* becomes done with the dictionary, or failed with the exception.
WorkerFinish(i) ==
    /\ UNCHANGED notOrchVars
    /\ fstate[i] = "running"
    /\ \E es \in EntropyChoices(scenarios[i]) :
         LET r == RunSingleScenario(scenarios[i], es)
         IN  /\ fstate' = [fstate EXCEPT ![i] = IF r.ok THEN "done" ELSE "failed"]
             /\ fvalue' = [fvalue EXCEPT ![i] = r]
    /\ UNCHANGED <<scenarios, max_workers, seq_pc, seq_results, pc, fobjs,
                   attempts, yielded, summary_results, appended_by, raised,
                   next_obj>>

\* The thread that executes the append of line 64.
AppendingThread(i) == "main"

\* Collect with the exception of a failed future caught and dropped.
CollectSwallow(i) ==
    /\ UNCHANGED notOrchVars
    /\ pc = "collect"
    /\ i \notin yielded
    /\ fstate[i] \in {"done", "failed"}
    /\ yielded' = yielded \cup {i}
    /\ IF fvalue[i].ok
       THEN /\ summary_results' = Append(summary_results, fvalue[i].value)
            /\ appended_by' = Append(appended_by, [thread |-> "main", future |-> i])
       ELSE UNCHANGED <<summary_results, appended_by>>
    /\ UNCHANGED <<scenarios, max_workers, seq_pc, seq_results, pc, raised,
                   fstate, fvalue, fobjs, attempts, next_obj>>

\* One iteration of the loop over as_completed(futures): some finished
\* future not yet handed out is taken; future.result() returns the value,
\* which is appended, or re-raises the task's exception out of the loop.
Collect(i) ==
    /\ UNCHANGED notOrchVars
    /\ pc = "collect"
    /\ i \notin yielded
    /\ Finished(i)
    /\ yielded' = yielded \cup {i}
    /\ IF fvalue[i].ok
       THEN /\ summary_results' = Append(summary_results, fvalue[i].value)
            /\ appended_by' = Append(appended_by, [thread |-> AppendingThread(i),
                                                     future |-> i])
            /\ UNCHANGED <<pc, raised>>
       ELSE /\ raised' = Some(<<i, fvalue[i].exc>>)
            /\ pc' = "exit"
            /\ UNCHANGED <<summary_results, appended_by>>
    /\ UNCHANGED <<scenarios, max_workers, seq_pc, seq_results, fstate, fvalue,
                   fobjs, attempts, next_obj>>

\* The loop left after the first future instead of after the last.
CollectDoneEarly ==
    /\ UNCHANGED notOrchVars
    /\ pc = "collect"
    /\ (yielded # {} \/ N = 0)
    /\ pc' = "exit"
    /\ UNCHANGED <<scenarios, max_workers, seq_pc, seq_results, fstate, fvalue,
                   fobjs, attempts, yielded, summary_results, appended_by,
                   raised, next_obj>>

\* as_completed is exhausted: the loop ends and the with block is left.
CollectDone ==
    /\ UNCHANGED notOrchVars
    /\ pc = "collect"
    /\ yielded = 1..N
    /\ pc' = "exit"
    /\ UNCHANGED <<scenarios, max_workers, seq_pc, seq_results, fstate, fvalue,
                   fobjs, attempts, yielded, summary_results, appended_by,
                   raised, next_obj>>

\* The with block left without joining the workers (shutdown(wait=False)).
ExecutorExitNoWait ==
    /\ UNCHANGED notOrchVars
    /\ pc = "exit"
    /\ pc' = IF raised = None THEN "returned" ELSE "raised"
    /\ UNCHANGED <<scenarios, max_workers, seq_pc, seq_results, fstate, fvalue,
                   fobjs, attempts, yielded, summary_results, appended_by,
                   raised, next_obj>>

\* ThreadPoolExecutor.__exit__: shutdown(wait=True) joins the workers, then
\* run_all returns, or the exception continues to the caller.
ExecutorExit ==
    /\ UNCHANGED notOrchVars
    /\ pc = "exit"
    /\ \A i \in 1..N : Finished(i)
    /\ pc' = IF raised = None THEN "returned" ELSE "raised"
    /\ UNCHANGED <<scenarios, max_workers, seq_pc, seq_results, fstate, fvalue,
                   fobjs, attempts, yielded, summary_results, appended_by,
                   raised, next_obj>>

\* The state after constructing the orchestrators on a scenario list.
OrchInitWith(seq_pc0, pc0) ==
    /\ scenarios \in ScenarioLists
    /\ max_workers \in 1..MaxWorkers
    /\ seq_pc = seq_pc0
    /\ seq_results = <<>>
    /\ pc = pc0
    /\ fstate = [i \in 1..Len(scenarios) |-> "new"]
    /\ fvalue = [i \in 1..Len(scenarios) |-> None]
    /\ fobjs = [i \in 1..Len(scenarios) |-> None]
    /\ attempts = [i \in 1..Len(scenarios) |-> 0]
    /\ yielded = {}
    /\ summary_results = <<>>
    /\ appended_by = <<>>
    /\ raised = None
    /\ next_obj = 1

\* SimulationOrchestratorParallel(scenarios).run_all(max_workers) alone.
OrchInit == OrchInitWith("off", "submit")

OrchNext ==
    \/ Submit
    \/ \E i \in 1..N : WorkerStart(i)
    \/ \E i \in 1..N : WorkerFinish(i)
    \/ \E i \in 1..N : Collect(i)
    \/ CollectDone
    \/ ExecutorExit

\* The sequential orchestrator run on the list, then the parallel one.
EquivInit == OrchInitWith("run", "wait")

EquivNext ==
    \/ SeqStep
    \/ Submit
    \/ \E i \in 1..N : WorkerStart(i)
    \/ \E i \in 1..N : WorkerFinish(i)
    \/ \E i \in 1..N : Collect(i)
    \/ CollectDone
    \/ ExecutorExit

\* ====================================================================
\* Example 1: minimum design example
\* ====================================================================
MaxRunnerSims == 3

\* ----------------------------------------------------- DGPs and estimators
\* Coefficients are kept in hundredths (beta1 = 0.5 is 50).

\* StaticNormalDGP.sample / DynamicNormalDGP.sample: the data drawn,
\* identified by the DGP, the sample size and the stream.
Sample1(dgp, n_obs, seed, entropy) ==
    [kind |-> dgp.kind, beta0 |-> dgp.beta0, beta1 |-> dgp.beta1,
     n |-> n_obs, draw |-> StreamOf(seed, entropy)]

\* Sampling error of the slope on the data (abstract, a function of the
\* stream and the sample size); the AR(1) design adds a downward bias.
Noise(data) ==
    ((data.draw * 3 + data.n) % 5) - 2 - (IF data.kind = "dynamic" THEN 1 ELSE 0)

\* SimpleOLS.fit / SimpleRidge.fit / LassoWrapper.fit: the beta1_hat stored.
Beta1Hat(estimator, data) ==
    LET ols == data.beta1 + Noise(data)
    IN  CASE estimator.type = "SimpleOLS" -> ols
          [] estimator.type = "SimpleRidge" ->
                (ols * 100) \div (100 + estimator.reg_param)
          [] OTHER ->
                Sign(ols) * (IF Abs(ols) > estimator.reg_param
                             THEN Abs(ols) - estimator.reg_param ELSE 0)

Dgps1 ==
    { [kind |-> "static", beta0 |-> 0, beta1 |-> 100],
      [kind |-> "dynamic", beta0 |-> 0, beta1 |-> 50] }

Estimators1 ==
    { [type |-> "SimpleOLS", reg_param |-> 0],
      [type |-> "SimpleRidge", reg_param |-> 10] }

\* first_seed arguments: the default None, zero, positive and negative seeds.
FirstSeeds == {None, Some(0), Some(1), Some(2), Some(-1)}

\* Contents np.empty may hand out for an array cell it does not initialise.
Uninitialised == {0, 77}

Calls == {1, 2}

\* simulate is entered: errors = np.empty(n_sim), and the loop starts.  The
\* second call is made on a fresh runner once the first has ended.
SimulateEnter(c) ==
    /\ UNCHANGED notRunnerVars
    /\ r_pc[c] = "idle"
    /\ c = 2 => r_pc[1] \in {"done", "raised"}
    /\ \E g \in Uninitialised :
         r_errors' = [r_errors EXCEPT ![c] = [k \in 1..r_n_sim |-> g]]
    /\ r_sim_id' = [r_sim_id EXCEPT ![c] = 0]
    /\ r_pc' = [r_pc EXCEPT ![c] = IF r_n_sim > 0 THEN "sample" ELSE "done"]
    /\ UNCHANGED <<r_dgp, r_estimator_type, r_n_sim, r_n_obs, r_first_seed,
                   r_xy, r_beta1_hat, r_seeds, r_sampled, r_trace>>

\* x, y = self.dgp.sample(n_obs, seed=first_seed + sim_id if first_seed else None)
DrawData(c) ==
    /\ UNCHANGED notRunnerVars
    /\ r_pc[c] = "sample"
    /\ LET seed == SeedFor(r_first_seed, r_sim_id[c])
       IN  /\ r_seeds' = [r_seeds EXCEPT ![c] = Append(@, seed)]
           /\ IF RngRaises(seed)
              THEN /\ r_pc' = [r_pc EXCEPT ![c] = "raised"]
                   /\ UNCHANGED <<r_xy, r_sampled, r_trace>>
              ELSE \E e \in (IF seed = None THEN 0..MaxEntropy ELSE {0}) :
                     LET data == Sample1(r_dgp, r_n_obs, seed, e)
                     IN  /\ r_xy' = [r_xy EXCEPT ![c] = data]
                         /\ r_sampled' = [r_sampled EXCEPT ![c] = Append(@, data)]
                         /\ r_trace' = [r_trace EXCEPT ![c] =
                                           Append(@, <<"sample", r_sim_id[c]>>)]
                         /\ r_pc' = [r_pc EXCEPT ![c] = "fit"]
    /\ UNCHANGED <<r_dgp, r_estimator_type, r_n_sim, r_n_obs, r_first_seed,
                   r_sim_id, r_beta1_hat, r_errors>>

\* The x, y handed to estimator.fit: those of the first replication.
FirstData(c) == r_sampled[c][1]
\* The x, y handed to estimator.fit: those just drawn.
DataToFit(c) == r_xy[c]

\* self.estimator.fit(x, y)
FitModel(c) ==
    /\ UNCHANGED notRunnerVars
    /\ r_pc[c] = "fit"
    /\ r_beta1_hat' = [r_beta1_hat EXCEPT ![c] =
                          Beta1Hat(r_estimator_type, DataToFit(c))]
    /\ r_trace' = [r_trace EXCEPT ![c] = Append(@, <<"fit", r_sim_id[c]>>)]
    /\ r_pc' = [r_pc EXCEPT ![c] = "record"]
    /\ UNCHANGED <<r_dgp, r_estimator_type, r_n_sim, r_n_obs, r_first_seed,
                   r_sim_id, r_xy, r_errors, r_seeds, r_sampled>>

\* self.errors[sim_id] = self.estimator.beta1_hat - self.dgp.beta1, and the
\* loop moves to the next sim_id.
StoreError(c) ==
    /\ UNCHANGED notRunnerVars
    /\ r_pc[c] = "record"
    /\ r_errors' = [r_errors EXCEPT ![c] =
                       [@ EXCEPT ![r_sim_id[c] + 1] = r_beta1_hat[c] - r_dgp.beta1]]
    /\ r_trace' = [r_trace EXCEPT ![c] = Append(@, <<"record", r_sim_id[c]>>)]
    /\ r_sim_id' = [r_sim_id EXCEPT ![c] = @ + 1]
    /\ r_pc' = [r_pc EXCEPT ![c] =
                   IF r_sim_id[c] + 1 < r_n_sim THEN "sample" ELSE "done"]
    /\ UNCHANGED <<r_dgp, r_estimator_type, r_n_sim, r_n_obs, r_first_seed,
                   r_xy, r_beta1_hat, r_seeds, r_sampled>>

RunnerInit ==
    /\ r_dgp \in Dgps1
    /\ r_estimator_type \in Estimators1
    /\ r_n_sim \in 0..MaxRunnerSims
    /\ r_n_obs \in {2, 5}
    /\ r_first_seed \in FirstSeeds
    /\ r_pc = [c \in Calls |-> "idle"]
    /\ r_sim_id = [c \in Calls |-> 0]
    /\ r_xy = [c \in Calls |-> None]
    /\ r_beta1_hat = [c \in Calls |-> NaN]
    /\ r_errors = [c \in Calls |-> <<>>]
    /\ r_seeds = [c \in Calls |-> <<>>]
    /\ r_sampled = [c \in Calls |-> <<>>]
    /\ r_trace = [c \in Calls |-> <<>>]

RunnerIdle ==
    /\ r_dgp = None
    /\ r_estimator_type = None
    /\ r_n_sim = 0
    /\ r_n_obs = 0
    /\ r_first_seed = None
    /\ r_pc = <<>>
    /\ r_sim_id = <<>>
    /\ r_xy = <<>>
    /\ r_beta1_hat = <<>>
    /\ r_errors = <<>>
    /\ r_seeds = <<>>
    /\ r_sampled = <<>>
    /\ r_trace = <<>>

RunnerNext ==
    \/ \E c \in Calls : SimulateEnter(c)
    \/ \E c \in Calls : DrawData(c)
    \/ \E c \in Calls : FitModel(c)
    \/ \E c \in Calls : StoreError(c)

\* ------------------------------------------- orchestrator of example 1
MaxScenarios1 == 3

\* SimulationRunner.simulate of example 1 as run_all calls it: the errors
\* stored, replication by replication (es as in Simulate2).
RECURSIVE Simulate1(_, _, _, _)
Simulate1(s, es, sim_id, errors) ==
    IF sim_id >= s.n_simulations THEN errors
    ELSE LET seed == SeedFor(s.first_seed, sim_id)
             data == Sample1(s.dgp, s.sample_size, seed, es[sim_id + 1])
         IN  Simulate1(s, es, sim_id + 1,
                       Append(errors, Beta1Hat(s.estimator, data) - s.dgp.beta1))

Scenario1(name, dgp, estimator, size, seed) ==
    [name |-> name, dgp |-> dgp, estimator |-> estimator, sample_size |-> size,
     n_simulations |-> NumSims, first_seed |-> Some(seed)]

StaticDgp == [kind |-> "static", beta0 |-> 0, beta1 |-> 100]
DynamicDgp == [kind |-> "dynamic", beta0 |-> 0, beta1 |-> 50]
OlsEstimator == [type |-> "SimpleOLS", reg_param |-> 0]
RidgeEstimator == [type |-> "SimpleRidge", reg_param |-> 10]

\* Scenarios the orchestrator is run on; SimulationScenario does not require
\* names to differ, and two of these share the name "a".
ScenarioPool1 ==
    { Scenario1("a", StaticDgp, OlsEstimator, 2, 1),
      Scenario1("b", DynamicDgp, RidgeEstimator, 5, 1),
      Scenario1("a", DynamicDgp, OlsEstimator, 5, 1),
      Scenario1("c", StaticDgp, OlsEstimator, 2, 0) }

ScenarioLists1 == UNION {[1..n -> ScenarioPool1] : n \in 0..MaxScenarios1}

\* Dictionary assignment d[key] = value.
DictSet(d, key, value) ==
    [k \in DOMAIN d \cup {key} |-> IF k = key THEN value ELSE d[k]]

\* One iteration of the for loop of run_all: build DGP, estimator and runner,
\* simulate, and store errors.mean() under the scenario's name.
Orch1Step ==
    /\ UNCHANGED notOrch1Vars
    /\ o1_pc = "loop"
    /\ o1_i < Len(o1_scenarios)
    /\ LET s == o1_scenarios[o1_i + 1]
       IN  \E es \in EntropyChoices(s) :
             LET m == Mean(Simulate1(s, es, 0, <<>>))
             IN  /\ o1_summary' = DictSet(o1_summary, s.name, m)
                 /\ o1_runner_means' = Append(o1_runner_means, m)
    /\ o1_i' = o1_i + 1
    /\ UNCHANGED <<o1_scenarios, o1_pc>>

\* The for loop is exhausted and run_all returns.
Orch1Return ==
    /\ UNCHANGED notOrch1Vars
    /\ o1_pc = "loop"
    /\ o1_i = Len(o1_scenarios)
    /\ o1_pc' = "returned"
    /\ UNCHANGED <<o1_scenarios, o1_i, o1_summary, o1_runner_means>>

Orch1Init ==
    /\ o1_scenarios \in ScenarioLists1
    /\ o1_pc = "loop"
    /\ o1_i = 0
    /\ o1_summary = <<>>
    /\ o1_runner_means = <<>>

Orch1Idle ==
    /\ o1_scenarios = <<>>
    /\ o1_pc = "off"
    /\ o1_i = 0
    /\ o1_summary = <<>>
    /\ o1_runner_means = <<>>

Orch1Next == Orch1Step \/ Orch1Return

\* ----------------------------------------------- scenario grids (scenarios.py)
\* Number of points of the two np.linspace grids of example 2 (231 and 51 in
\* the source), scaled down.
NumCoefVals == 3
NumCorrVals == 2

\* A dictionary literal, as its set of items.
Dict0 == {}
Dict1(key, value) == {<<key, value>>}

\* Example 1: dgps, estimators, sample_sizes (parameters in hundredths).
Dgps1List ==
    << [class |-> "StaticNormalDGP", descr |-> "static",
        params |-> {<<"beta0", 0>>, <<"beta1", 100>>}],
       [class |-> "DynamicNormalDGP", descr |-> "low_pers",
        params |-> {<<"beta0", 0>>, <<"beta1", 10>>}],
       [class |-> "DynamicNormalDGP", descr |-> "mid_pers",
        params |-> {<<"beta0", 0>>, <<"beta1", 50>>}],
       [class |-> "DynamicNormalDGP", descr |-> "high_pers",
        params |-> {<<"beta0", 0>>, <<"beta1", 95>>}] >>

Estimators1List ==
    << [class |-> "SimpleOLS", params |-> Dict0],
       [class |-> "LassoWrapper", params |-> Dict1("reg_param", 10)],
       [class |-> "SimpleRidge", params |-> Dict1("reg_param", 10)] >>

SampleSizes1 == <<50, 200>>

\* cls.__name__.lower()
LowerName(class) ==
    CASE class = "StaticNormalDGP" -> "staticnormaldgp"
      [] class = "DynamicNormalDGP" -> "dynamicnormaldgp"
      [] class = "SimpleOLS" -> "simpleols"
      [] class = "LassoWrapper" -> "lassowrapper"
      [] class = "SimpleRidge" -> "simpleridge"

\* The SimulationScenario the comprehension of example 1 builds for one
\* tuple of product(dgps, estimators, sample_sizes).
MakeScenario1(d, e, size) ==
    [name |-> LowerName(d.class) \o "_" \o d.descr \o "_"
                 \o LowerName(e.class) \o "_n" \o ToString(size),
     dgp |-> d.class, dgp_params |-> d.params,
     estimator |-> e.class, estimator_params |-> e.params,
     sample_size |-> size, n_simulations |-> 1000, first_seed |-> 1]

\* np.linspace(start, stop, num)[i], exact, as numerator and denominator
\* (start and stop in hundredths).
Linspace(start, stop, num, i) ==
    IF num = 1 THEN <<start, 1>>
    ELSE <<start * (num - 1) + i * (stop - start), num - 1>>

\* Example 2: dgp_list, the comprehension over
\* product(common_coef_vals, covar_corr_vals).
DgpList2 ==
    [k \in 1..(NumCoefVals * NumCorrVals) |->
        [class |-> "BivariateLinearModel",
         params |-> {<<"common_coef_val",
                       Linspace(-175, 175, NumCoefVals, (k - 1) \div NumCorrVals)>>,
                     <<"covar_corr",
                       Linspace(-99, 99, NumCorrVals, (k - 1) % NumCorrVals)>>}]]

Tests2List ==
    << [class |-> "WaldWithOLS", params |-> Dict0],
       [class |-> "BonferronigMultipleTWithOLS", params |-> Dict0] >>

SampleSizes2 == <<200>>

\* The SimulationScenario the comprehension of example 2 builds for one
\* tuple of product(dgp_list, tests, sample_sizes).
MakeScenario2(d, t, size) ==
    [name |-> "", dgp |-> d.class, dgp_params |-> d.params,
     test |-> t.class, test_params |-> t.params,
     sample_size |-> size, n_simulations |-> 500, first_seed |-> 1]

MakeScenario(example, a, b, c) ==
    IF example = 1 THEN MakeScenario1(a, b, c) ELSE MakeScenario2(a, b, c)

ComponentLists(example) ==
    IF example = 1 THEN <<Dgps1List, Estimators1List, SampleSizes1>>
    ELSE <<DgpList2, Tests2List, SampleSizes2>>

Prefixes(list) == {SubSeq(list, 1, n) : n \in 0..Len(list)}

\* All three positions advance together, as zip() would.
ZipNext(idx, lists) ==
    IF \E j \in 1..3 : idx[j] >= Len(lists[j]) THEN None
    ELSE [j \in 1..3 |-> idx[j] + 1]

\* itertools.product: the next tuple, the rightmost position advancing
\* fastest; None when the product is exhausted.
ProductNext(idx, lists) ==
    IF idx[3] < Len(lists[3]) THEN <<idx[1], idx[2], idx[3] + 1>>
    ELSE IF idx[2] < Len(lists[2]) THEN <<idx[1], idx[2] + 1, 1>>
    ELSE IF idx[1] < Len(lists[1]) THEN <<idx[1] + 1, 1, 1>>
    ELSE None

\* product() is created: it is empty when one of its lists is empty.
GridStart ==
    /\ UNCHANGED notGridVars
    /\ g_pc = "start"
    /\ IF \E j \in 1..3 : Len(g_lists[j]) = 0
       THEN g_pc' = "done" /\ UNCHANGED g_idx
       ELSE g_pc' = "build" /\ g_idx' = <<1, 1, 1>>
    /\ UNCHANGED <<g_example, g_lists, g_scenarios>>

\* One iteration of the list comprehension: the scenario of the current
\* tuple is appended and product() advances.
GridAppend ==
    /\ UNCHANGED notGridVars
    /\ g_pc = "build"
    /\ g_scenarios' = Append(g_scenarios,
                             MakeScenario(g_example, g_lists[1][g_idx[1]],
                                          g_lists[2][g_idx[2]],
                                          g_lists[3][g_idx[3]]))
    /\ LET nxt == ProductNext(g_idx, g_lists)
       IN  IF nxt = None
           THEN g_pc' = "done" /\ UNCHANGED g_idx
           ELSE g_idx' = nxt /\ UNCHANGED g_pc
    /\ UNCHANGED <<g_example, g_lists>>

\* The component lists are those of the source or prefixes of them.
GridInit ==
    /\ g_example \in {1, 2}
    /\ g_lists \in Prefixes(ComponentLists(g_example)[1])
                     \X Prefixes(ComponentLists(g_example)[2])
                     \X Prefixes(ComponentLists(g_example)[3])
    /\ g_pc = "start"
    /\ g_idx = <<0, 0, 0>>
    /\ g_scenarios = <<>>

GridIdle ==
    /\ g_example = 0
    /\ g_lists = <<>>
    /\ g_pc = "off"
    /\ g_idx = <<0, 0, 0>>
    /\ g_scenarios = <<>>

GridNext == GridStart \/ GridAppend

\* ====================================================================
\* Example 5: class imbalance -- SKImbalancedTwoClassesDGP
\* ====================================================================
MaxTrainSamples == 12
MaxTestSamples == 4
DefaultTrainSamples == 600
DefaultTestSamples == 200

CeilDiv(a, b) == (a + b - 1) \div b

\* make_classification(n_samples=self.n_train_samples, ...): the number of
\* rows of X and of y.
MakeClassificationRows(n_train_samples) == n_train_samples

\* train_test_split(X, y, test_size=prop_test_set, stratify=y) with
\* prop_test_set = n_test_samples / (n_test_samples + n_train_samples):
\* the test set gets ceil(test_size * n_rows) rows (taken exactly here), the
\* training set the remaining rows.
TestRows(n_rows, n_train_samples, n_test_samples) ==
    CeilDiv(n_test_samples * n_rows, n_test_samples + n_train_samples)
TrainRows(n_rows, n_train_samples, n_test_samples) ==
    n_rows - TestRows(n_rows, n_train_samples, n_test_samples)

\* A stratified split needs at least one row per class (two classes) on
\* each side; train_test_split raises ValueError otherwise.
SplitRaises(n_train_rows, n_test_rows) == n_train_rows < 2 \/ n_test_rows < 2

\* SKImbalancedTwoClassesDGP.sample(seed).
Dgp5Sample ==
    /\ UNCHANGED notDgp5Vars
    /\ d_pc = "new"
    /\ LET n_rows == MakeClassificationRows(d_n_train_samples)
           n_test == TestRows(n_rows, d_n_train_samples, d_n_test_samples)
           n_train == TrainRows(n_rows, d_n_train_samples, d_n_test_samples)
       IN  IF SplitRaises(n_train, n_test)
           THEN d_pc' = "raised" /\ UNCHANGED d_split
           ELSE /\ d_pc' = "sampled"
                /\ d_split' = [X_train |-> n_train, X_test |-> n_test,
                               y_train |-> n_train, y_test |-> n_test]
    /\ UNCHANGED <<d_n_train_samples, d_n_test_samples, d_seed>>

Dgp5Init ==
    /\ d_n_train_samples \in (4..MaxTrainSamples) \cup {DefaultTrainSamples}
    /\ d_n_test_samples \in (1..MaxTestSamples) \cup {DefaultTestSamples}
    /\ d_seed \in {None, Some(0), Some(1)}
    /\ d_pc = "new"
    /\ d_split = None

Dgp5Idle ==
    /\ d_n_train_samples = 0
    /\ d_n_test_samples = 0
    /\ d_seed = None
    /\ d_pc = "off"
    /\ d_split = None

Dgp5Next == Dgp5Sample

\* ====================================================================
\* Example 3: confidence intervals close to the boundary
\* ====================================================================
MaxObs == 3
MaxValue == 2

\* Real quantities are kept in thousandths.
Scaled(x) == 1000 * x
Unscaled(x) == x \div 1000

\* Largest r in lo..hi with r * r <= n (hi * hi > n).
RECURSIVE SqrtBetween(_, _, _)
SqrtBetween(n, lo, hi) ==
    IF hi - lo <= 1 THEN lo
    ELSE LET mid == (lo + hi) \div 2
         IN  IF mid * mid <= n THEN SqrtBetween(n, mid, hi)
             ELSE SqrtBetween(n, lo, mid)

\* np.sqrt, rounded down (the search stays within 32-bit products).
Sqrt(n) == SqrtBetween(n, 0, IF n < 46340 THEN n + 1 ELSE 46341)

\* mle_variance: np.var(data, ddof=0) = (n * sum(x^2) - sum(x)^2) / n^2.
MleVariance(data) ==
    LET n == Len(data)
        sq == [i \in DOMAIN data |-> data[i] * data[i]]
    IN  Scaled(n * SumSeq(sq) - SumSeq(data) * SumSeq(data)) \div (n * n)

\* variance_std_error = np.sqrt(2 * variance_est**2 / n_obs)
VarianceStdError(variance_est, n_obs) ==
    Sqrt((2 * variance_est * variance_est) \div n_obs)

\* The alpha values the interval is computed for, in thousandths.
Alphas == {10, 50, 100, 500, 999}

\* z_crit = norm.ppf(1 - alpha / 2)
ZCrit(alpha) ==
    CASE alpha = 10 -> 2576
      [] alpha = 50 -> 1960
      [] alpha = 100 -> 1645
      [] alpha = 500 -> 674
      [] alpha = 999 -> 1

Max(a, b) == IF a >= b THEN a ELSE b

\* The interval without the truncation of the lower limit.
AsymptoticCiUntruncated(data, alpha) ==
    LET variance_est == MleVariance(data)
        margin == Unscaled(ZCrit(alpha) * VarianceStdError(variance_est, Len(data)))
    IN  <<variance_est - margin, variance_est + margin>>

\* asymptotic_ci_variance(data, alpha)
AsymptoticCiVariance(data, alpha) ==
    LET n_obs == Len(data)
        variance_est == MleVariance(data)
        variance_std_error == VarianceStdError(variance_est, n_obs)
        z_crit == ZCrit(alpha)
        lower == Max(0, variance_est - Unscaled(z_crit * variance_std_error))
        upper == variance_est + Unscaled(z_crit * variance_std_error)
    IN  <<lower, upper>>

CiCall ==
    /\ UNCHANGED notCiVars
    /\ c_pc = "call"
    /\ c_ci' = AsymptoticCiVariance(c_data, c_alpha)
    /\ c_pc' = "done"
    /\ UNCHANGED <<c_data, c_alpha>>

CiInit ==
    /\ c_data \in UNION {[1..n -> 0..MaxValue] : n \in 1..MaxObs}
    /\ c_alpha \in Alphas
    /\ c_pc = "call"
    /\ c_ci = None

CiIdle ==
    /\ c_data = <<>>
    /\ c_alpha = 0
    /\ c_pc = "off"
    /\ c_ci = None

CiNext == CiCall

OrchIdle ==
    /\ scenarios = <<>>
    /\ max_workers = 0
    /\ seq_pc = "off"
    /\ seq_results = <<>>
    /\ pc = "off"
    /\ fstate = <<>>
    /\ fvalue = <<>>
    /\ fobjs = <<>>
    /\ attempts = <<>>
    /\ yielded = {}
    /\ summary_results = <<>>
    /\ appended_by = <<>>
    /\ raised = None
    /\ next_obj = 1

\* ====================================================================
\* Example 3: run_simulations
\* ====================================================================
MaxSims3 == 2
MaxSimObs == 2
MaxList3 == 2

Inf == <<"inf">>

\* The true variances the simulation is run for (0 is the boundary itself);
\* their square roots are whole numbers.
TrueVarPool == {0, 1, 4}
Seeds3 == {0, 1}

\* The k-th standard normal value of the generator seeded with seed.
StandardNormal(seed, k) == (((seed + 1) * k * k + seed + k) % 5) - 2

\* rng.normal(0, np.sqrt(true_var), n_obs) when rng has produced drawn values.
RngNormal(seed, drawn, true_var, n_obs) ==
    [m \in 1..n_obs |-> Sqrt(true_var) * StandardNormal(seed, drawn + m)]

\* (ci_upper - ci_lower) / true_var in floating point.
NormalisedLength(ci, true_var) ==
    IF true_var # 0 THEN (ci[2] - ci[1]) \div true_var
    ELSE IF ci[2] - ci[1] = 0 THEN NaN ELSE Inf

\* One-sided variant of the coverage check.
CoversFromBelow(ci, true_var) ==
    IF ci[1] <= Scaled(true_var) THEN 1 ELSE 0

\* ci_lower <= true_var <= ci_upper
Covers(ci, true_var) ==
    IF ci[1] <= Scaled(true_var) /\ Scaled(true_var) <= ci[2] THEN 1 ELSE 0

\* The generator goes on from where the previous call left it.
RngContinued(seed, previous) == previous

\* np.random.default_rng(seed) (np.random.seed(seed) in main.py): whatever
\* was drawn before, the generator is at the start of the stream of seed.
DefaultRng(seed, previous) == 0

\* rng = np.random.default_rng(seed); results = {n_obs: {} for n_obs in n_obs_list}
SimEnter ==
    /\ UNCHANGED notSim3Vars
    /\ s3_pc = "enter"
    /\ s3_rng' = DefaultRng(s3_seed, s3_rng)
    /\ s3_results' = [n \in Range(s3_n_obs_list) |-> <<>>]
    /\ s3_i' = 1
    /\ s3_j' = 1
    /\ s3_pc' = "loop"
    /\ UNCHANGED <<s3_true_vars, s3_n_simulations, s3_n_obs_list, s3_alpha,
                   s3_seed, s3_errors, s3_lengths, s3_coverage, s3_cis,
                   s3_cis_of>>

InLoops3 ==
    /\ s3_pc = "loop"
    /\ s3_i <= Len(s3_n_obs_list)
    /\ s3_j <= Len(s3_true_vars)

\* One iteration of `for _ in range(n_simulations)`.
SimIteration ==
    /\ UNCHANGED notSim3Vars
    /\ InLoops3
    /\ Len(s3_coverage) < s3_n_simulations
    /\ LET n_obs == s3_n_obs_list[s3_i]
           true_var == s3_true_vars[s3_j]
           data == RngNormal(s3_seed, s3_rng, true_var, n_obs)
           var_hat == MleVariance(data)
           ci == AsymptoticCiVariance(data, s3_alpha)
       IN  /\ s3_rng' = s3_rng + n_obs
           /\ s3_errors' = Append(s3_errors, var_hat - Scaled(true_var))
           /\ s3_lengths' = Append(s3_lengths, NormalisedLength(ci, true_var))
           /\ s3_coverage' = Append(s3_coverage, Covers(ci, true_var))
           /\ s3_cis' = Append(s3_cis, ci)
    /\ UNCHANGED <<s3_true_vars, s3_n_simulations, s3_n_obs_list, s3_alpha,
                   s3_seed, s3_pc, s3_i, s3_j, s3_results, s3_cis_of>>

\* results[n_obs][true_var] = {...}, and the loops move on to the next
\* true_var (or the next n_obs) with fresh lists.
SimStore ==
    /\ UNCHANGED notSim3Vars
    /\ InLoops3
    /\ Len(s3_coverage) = s3_n_simulations
    /\ LET n_obs == s3_n_obs_list[s3_i]
           true_var == s3_true_vars[s3_j]
           entry == [coverage |-> Mean(s3_coverage),
                     errors |-> s3_errors,
                     lengths |-> s3_lengths]
       IN  /\ s3_results' = DictSet(s3_results, n_obs,
                                    DictSet(s3_results[n_obs], true_var, entry))
           /\ s3_cis_of' = DictSet(s3_cis_of, <<n_obs, true_var>>, s3_cis)
    /\ IF s3_j < Len(s3_true_vars)
       THEN s3_j' = s3_j + 1 /\ s3_i' = s3_i
       ELSE s3_j' = 1 /\ s3_i' = s3_i + 1
    /\ s3_errors' = <<>>
    /\ s3_lengths' = <<>>
    /\ s3_coverage' = <<>>
    /\ s3_cis' = <<>>
    /\ UNCHANGED <<s3_true_vars, s3_n_simulations, s3_n_obs_list, s3_alpha,
                   s3_seed, s3_pc, s3_rng>>

\* The loops are exhausted: return results.
SimReturn ==
    /\ UNCHANGED notSim3Vars
    /\ s3_pc = "loop"
    /\ s3_i > Len(s3_n_obs_list) \/ Len(s3_true_vars) = 0
    /\ s3_pc' = "returned"
    /\ UNCHANGED <<s3_true_vars, s3_n_simulations, s3_n_obs_list, s3_alpha,
                   s3_seed, s3_i, s3_j, s3_rng, s3_errors, s3_lengths,
                   s3_coverage, s3_results, s3_cis, s3_cis_of>>

Sim3Init ==
    /\ s3_true_vars \in UNION {[1..n -> TrueVarPool] : n \in 0..MaxList3}
    /\ s3_n_simulations \in 0..MaxSims3
    /\ s3_n_obs_list \in UNION {[1..n -> 1..MaxSimObs] : n \in 0..MaxList3}
    /\ s3_alpha \in {50, 500}
    /\ s3_seed \in Seeds3
    /\ s3_pc = "enter"
    /\ s3_i = 0
    /\ s3_j = 0
    /\ s3_rng = 0
    /\ s3_errors = <<>>
    /\ s3_lengths = <<>>
    /\ s3_coverage = <<>>
    /\ s3_results = <<>>
    /\ s3_cis = <<>>
    /\ s3_cis_of = <<>>

Sim3Idle ==
    /\ s3_true_vars = <<>>
    /\ s3_n_simulations = 0
    /\ s3_n_obs_list = <<>>
    /\ s3_alpha = 0
    /\ s3_seed = 0
    /\ s3_pc = "off"
    /\ s3_i = 0
    /\ s3_j = 0
    /\ s3_rng = 0
    /\ s3_errors = <<>>
    /\ s3_lengths = <<>>
    /\ s3_coverage = <<>>
    /\ s3_results = <<>>
    /\ s3_cis = <<>>
    /\ s3_cis_of = <<>>

Sim3Next == SimEnter \/ SimIteration \/ SimStore \/ SimReturn

\* ====================================================================
\* Example 4: GMMSolver
\* ====================================================================
MaxGmmCalls == 3

\* Parameter vectors the optimizer can end at.
ParamVectors == {1, 2}

\* What scipy.optimize.minimize can do: return an OptimizeResult with
\* success True or False, or let an exception of the objective escape.
OptimizeOutcomes ==
    [kind : {"result"}, success : BOOLEAN, x : ParamVectors]
        \cup {[kind |-> "raise", success |-> FALSE, x |-> 0]}

\* Assignment of result.x before the success check.
StoredRegardless(before, result) ==
    IF result.kind = "raise" THEN before ELSE result.x

\* self.estimated_params after minimize: `if not result.success: raise`
\* comes before `self.estimated_params = result.x`.
StoredAfterMinimize(before, result) ==
    IF result.kind = "result" /\ result.success THEN result.x ELSE before

\* process_mu_sigma_params(params): slices and products of the entries.
ProcessMuSigmaParams(params) ==
    [mu_plus |-> params, mu_minus |-> params + 1,
     sigma_plus |-> params * params, sigma_minus |-> params * params + 1]

\* GMMSolver.minimize
GmmMinimize ==
    /\ UNCHANGED notGmmVars
    /\ gm_last # "off"
    /\ gm_calls < MaxGmmCalls
    /\ \E result \in OptimizeOutcomes :
         /\ gm_result' = result
         /\ gm_estimated_params' = StoredAfterMinimize(gm_estimated_params, result)
         /\ gm_last' = IF result.kind = "raise" THEN "minimize_error"
                       ELSE IF result.success THEN "minimize_ok"
                       ELSE "minimize_failed"
         /\ gm_raised' = IF result.kind = "raise" THEN Some("Exception")
                         ELSE IF result.success THEN None
                         ELSE Some("ValueError")
         /\ gm_solution' = IF result.kind = "result" /\ result.success
                           THEN Some(result.x) ELSE gm_solution
    /\ gm_before' = gm_estimated_params
    /\ gm_calls' = gm_calls + 1
    /\ UNCHANGED <<gm_process_func, gm_returned, gm_initial>>

\* GMMSolver.process_solution
GmmProcessSolution ==
    /\ UNCHANGED notGmmVars
    /\ gm_last # "off"
    /\ gm_calls < MaxGmmCalls
    /\ gm_returned' = IF gm_process_func = None
                      THEN Some([parameters |-> gm_estimated_params])
                      ELSE Some(ProcessMuSigmaParams(gm_estimated_params))
    /\ gm_last' = "process"
    /\ gm_raised' = None
    /\ gm_before' = gm_estimated_params
    /\ gm_calls' = gm_calls + 1
    /\ UNCHANGED <<gm_process_func, gm_estimated_params, gm_result,
                   gm_solution, gm_initial>>

\* GMMSolver.__init__: estimated_params = np.empty(initial_guess.shape)
GmmInit ==
    /\ gm_process_func \in {None, Some("process_mu_sigma_params")}
    /\ gm_estimated_params \in Uninitialised
    /\ gm_initial = gm_estimated_params
    /\ gm_last = "new"
    /\ gm_result = None
    /\ gm_raised = None
    /\ gm_returned = None
    /\ gm_calls = 0
    /\ gm_before = gm_estimated_params
    /\ gm_solution = None

GmmIdle ==
    /\ gm_process_func = None
    /\ gm_estimated_params = 0
    /\ gm_initial = 0
    /\ gm_last = "off"
    /\ gm_result = None
    /\ gm_raised = None
    /\ gm_returned = None
    /\ gm_calls = 0
    /\ gm_before = 0
    /\ gm_solution = None

GmmNext == GmmMinimize \/ GmmProcessSolution

\* ====================================================================
\* Example 4: generate_data
\* ====================================================================
MaxUnits == 3

\* The effect argument of the two generate_for_effect calls.
PlusCallEffect == 1
MinusCallEffect == 1

\* BETA_MEAN = -0.25 and another value, in hundredths.
BetaMeans == {-25, 0}

\* The rows of unit u (from 0) of the frame generate_for_effect builds. The
\* "outcome" and "covariate" columns are indexed by (unit, period) for the
\* num_units_effect generated units and both periods, the "effects" column
\* by (unit, 0) for all units of ind_effects; the frame holds the union of
\* the two indexes; a cell a column has no value for (nan) is None.
RowsOfUnit(u, ind_effects, effect, beta, num_units_effect) ==
    LET row(p) == [Unit |-> u, Period |-> p,
                   outcome |-> IF u < num_units_effect
                               THEN Some([effect |-> effect, beta |-> beta])
                               ELSE None,
                   covariate |-> IF u < num_units_effect THEN Some("x") ELSE None,
                   effects |-> IF p = 0 /\ u < Len(ind_effects)
                               THEN Some(ind_effects[u + 1]) ELSE None]
    IN  (IF u < Len(ind_effects) \/ u < num_units_effect THEN <<row(0)>> ELSE <<>>)
            \o (IF u < num_units_effect THEN <<row(1)>> ELSE <<>>)

RECURSIVE RowsUpTo(_, _, _, _, _)
RowsUpTo(n, ind_effects, effect, beta, num_units_effect) ==
    IF n = 0 THEN <<>>
    ELSE RowsUpTo(n - 1, ind_effects, effect, beta, num_units_effect)
            \o RowsOfUnit(n - 1, ind_effects, effect, beta, num_units_effect)

\* generate_for_effect(effect, mu_x, sigma_x, sigma_u, beta)
GenerateForEffect(ind_effects, effect, beta) ==
    LET num_units_effect == CountIn(effect, ind_effects)
    IN  RowsUpTo(Len(ind_effects), ind_effects, effect, beta, num_units_effect)

UnitsOf(data) == {data[k].Unit : k \in DOMAIN data}

\* ind_effects = rng.choice([-1, 1], size=num_units)
GenDraw ==
    /\ UNCHANGED notGenVars
    /\ gd_pc = "draw"
    /\ gd_ind_effects' \in [1..gd_num_units -> {-1, 1}]
    /\ gd_pc' = "plus"
    /\ UNCHANGED <<gd_num_units, gd_beta_mean, gd_data_plus, gd_data_minus, gd_data>>

\* data_plus = generate_for_effect(1, ..., beta_mean + 1)
GenPlus ==
    /\ UNCHANGED notGenVars
    /\ gd_pc = "plus"
    /\ gd_data_plus' = GenerateForEffect(gd_ind_effects, PlusCallEffect,
                                         gd_beta_mean + 100)
    /\ gd_pc' = "minus"
    /\ UNCHANGED <<gd_num_units, gd_beta_mean, gd_ind_effects, gd_data_minus, gd_data>>

\* data_minus = generate_for_effect(1, ..., beta_mean - 1)
GenMinus ==
    /\ UNCHANGED notGenVars
    /\ gd_pc = "minus"
    /\ gd_data_minus' = GenerateForEffect(gd_ind_effects, MinusCallEffect,
                                          gd_beta_mean - 100)
    /\ gd_pc' = "combine"
    /\ UNCHANGED <<gd_num_units, gd_beta_mean, gd_ind_effects, gd_data_plus, gd_data>>

\* data_minus["Unit"] += len(data_plus["Unit"].unique()); return pd.concat(...)
GenCombine ==
    /\ UNCHANGED notGenVars
    /\ gd_pc = "combine"
    /\ LET shift == Cardinality(UnitsOf(gd_data_plus))
           shifted == [k \in DOMAIN gd_data_minus |->
                         [gd_data_minus[k] EXCEPT !.Unit = @ + shift]]
       IN  /\ gd_data_minus' = shifted
           /\ gd_data' = gd_data_plus \o shifted
    /\ gd_pc' = "returned"
    /\ UNCHANGED <<gd_num_units, gd_beta_mean, gd_ind_effects, gd_data_plus>>

GenInit ==
    /\ gd_num_units \in 0..MaxUnits
    /\ gd_beta_mean \in BetaMeans
    /\ gd_pc = "draw"
    /\ gd_ind_effects = <<>>
    /\ gd_data_plus = <<>>
    /\ gd_data_minus = <<>>
    /\ gd_data = <<>>

GenIdle ==
    /\ gd_num_units = 0
    /\ gd_beta_mean = 0
    /\ gd_pc = "off"
    /\ gd_ind_effects = <<>>
    /\ gd_data_plus = <<>>
    /\ gd_data_minus = <<>>
    /\ gd_data = <<>>

GenNext == GenDraw \/ GenPlus \/ GenMinus \/ GenCombine

\* ====================================================================
\* Example 5: SimulationRunner and SimulationOrchestrator
\* ====================================================================
MaxScenarios5 == 2
MaxWorkers5 == 2

\* Value of a keyword argument, or the parameter's default.
KwargOr(kwargs, key, default) ==
    IF \E p \in kwargs : p[1] = key
    THEN (CHOOSE p \in kwargs : p[1] = key)[2]
    ELSE default

\* algo.name as the constructors set it.
AlgoName(algo_type, algo_kwargs) ==
    CASE algo_type = "LogisticRegressionAlgorithm" ->
            "LogisticRegression (class_weight="
                \o KwargOr(algo_kwargs, "class_weight", "None") \o ")"
      [] algo_type = "LogisticRegressionSMOTE" -> "Logistic Regression with SMOTE"
      [] algo_type = "RandomForestAlgorithm" -> "RandomForest"

\* The metrics of one algorithm fitted on the training data and evaluated on
\* the test data drawn with seed.
Metrics(dgp_kwargs, seed, algo_type, algo_kwargs, split) ==
    [n_training |-> dgp_kwargs.n_train_samples,
     fitted_on |-> <<seed, split.X_train>>,
     evaluated_on |-> <<seed, split.X_test>>,
     algo |-> <<algo_type, algo_kwargs>>]

\* sim_results[result_key] = {...} on a dictionary kept in insertion order.
OrderedDictSet(dict, key, value) ==
    IF \E k \in DOMAIN dict : dict[k][1] = key
    THEN [k \in DOMAIN dict |-> IF dict[k][1] = key THEN <<key, value>> ELSE dict[k]]
    ELSE Append(dict, <<key, value>>)

\* The for loop over zip(algorithm_types, algorithm_kwargs_list), first n pairs.
RECURSIVE FitAlgorithms(_, _, _, _)
FitAlgorithms(s, seed, split, n) ==
    IF n = 0 THEN <<>>
    ELSE LET algo_type == s.algorithms[n]
             algo_kwargs == s.algorithm_kwargs_list[n]
             result_key == "SK unbalanced" \o " + " \o AlgoName(algo_type, algo_kwargs)
         IN  OrderedDictSet(FitAlgorithms(s, seed, split, n - 1), result_key,
                            Metrics(s.dgp_kwargs, seed, algo_type, algo_kwargs, split))

Min(a, b) == IF a <= b THEN a ELSE b

\* SimulationRunner._run_single_simulation(seed)
RunSingleSimulation(s, seed) ==
    LET k == s.dgp_kwargs
        n_rows == MakeClassificationRows(k.n_train_samples)
        n_test == TestRows(n_rows, k.n_train_samples, k.n_test_samples)
        n_train == TrainRows(n_rows, k.n_train_samples, k.n_test_samples)
    IN  IF SplitRaises(n_train, n_test)
        THEN [ok |-> FALSE, value |-> "ValueError"]
        ELSE [ok |-> TRUE,
              value |-> FitAlgorithms(s, seed,
                                      [X_train |-> n_train, X_test |-> n_test],
                                      Min(Len(s.algorithms), Len(s.algorithm_kwargs_list)))]

\* The rows run_all puts into its DataFrame.
RECURSIVE DataFrameRows(_)
DataFrameRows(results) ==
    IF results = <<>> THEN <<>>
    ELSE LET sim_result == Head(results)
         IN  [k \in DOMAIN sim_result |->
                 [algorithm |-> sim_result[k][1], metrics |-> sim_result[k][2]]]
                 \o DataFrameRows(Tail(results))

Scenario5(name, n_train, n_test, algorithms, kwargs_list, n_simulations) ==
    [name |-> name,
     dgp_kwargs |-> [n_train_samples |-> n_train, n_test_samples |-> n_test],
     algorithms |-> algorithms, algorithm_kwargs_list |-> kwargs_list,
     n_simulations |-> n_simulations]

ScenarioPool5 ==
    { Scenario5("unbalanced_classes", 12, 4,
                <<"LogisticRegressionAlgorithm", "LogisticRegressionAlgorithm",
                  "LogisticRegressionSMOTE">>,
                <<Dict1("class_weight", "None"), Dict1("class_weight", "balanced"),
                  Dict0>>, 2),
      Scenario5("balanced_classes", 12, 4,
                <<"LogisticRegressionAlgorithm", "LogisticRegressionSMOTE">>,
                <<Dict1("class_weight", "balanced"), Dict0>>, 1),
      Scenario5("forests", 12, 4,
                <<"RandomForestAlgorithm", "RandomForestAlgorithm">>,
                <<Dict1("random_state", "0"), Dict1("random_state", "1")>>, 2),
      Scenario5("tiny", 2, 1,
                <<"LogisticRegressionSMOTE">>, <<Dict0>>, 2),
      Scenario5("empty", 12, 4,
                <<"LogisticRegressionSMOTE">>, <<Dict0>>, 0) }

\* One task per scenario and seed in range(n_simulations).
Tasks5 ==
    UNION {{<<i, seed>> : seed \in 0..(o5_scenarios[i].n_simulations - 1)} :
             i \in DOMAIN o5_scenarios}

Running5 == {t \in DOMAIN t5_state : t5_state[t] = "running"}
Unfinished5 == {t \in DOMAIN t5_state : t5_state[t] \in {"pending", "running"}}

\* ThreadPoolExecutor without max_workers: more threads than n_workers.
PoolSizeDefault(n_workers) == n_workers + 1

\* ThreadPoolExecutor(max_workers=self.n_workers)
PoolSize(n_workers) == n_workers

\* The loop collects whichever future has finished (as_completed).
AsCompletedCandidates(collected, n_simulations) ==
    (0..(n_simulations - 1)) \ Range(collected)

\* `for future in futures`: the loop takes the futures in submission order.
CollectCandidates(collected, n_simulations) ==
    IF Len(collected) < n_simulations THEN {Len(collected)} ELSE {}

\* One iteration of the orchestrator's loop begins: a fresh runner is built
\* and its run_all submits one task per seed in range(n_simulations).
Run5Submit ==
    /\ UNCHANGED notRun5Vars
    /\ o5_pc = "loop"
    /\ r5_pc = "off"
    /\ o5_i < Len(o5_scenarios)
    /\ r5_results' = <<>>
    /\ r5_collected' = <<>>
    /\ t5_state' = [t \in DOMAIN t5_state |->
                      IF t[1] = o5_i + 1 THEN "pending" ELSE t5_state[t]]
    /\ r5_pc' = "collect"
    /\ UNCHANGED <<o5_scenarios, o5_n_workers, o5_pc, o5_i, o5_summary, r5_exc,
                   t5_value, t5_runs,
                   t5_finished>>

\* A free worker thread of the runner's executor takes its oldest pending task.
Worker5Start(t) ==
    /\ UNCHANGED notRun5Vars
    /\ t5_state[t] = "pending"
    /\ \A u \in DOMAIN t5_state :
         t5_state[u] = "pending" /\ u[1] = t[1] => u[2] >= t[2]
    /\ Cardinality({u \in Running5 : u[1] = t[1]}) < PoolSize(o5_n_workers)
    /\ t5_state' = [t5_state EXCEPT ![t] = "running"]
    /\ t5_runs' = [t5_runs EXCEPT ![t] = @ + 1]
    /\ UNCHANGED <<o5_scenarios, o5_n_workers, o5_pc, o5_i, o5_summary, r5_pc,
                   r5_results, r5_collected, r5_exc, t5_value,
                   t5_finished>>

\* _run_single_simulation(seed) returns or raises on its worker thread.
Worker5Finish(t) ==
    /\ UNCHANGED notRun5Vars
    /\ t5_state[t] = "running"
    /\ LET out == RunSingleSimulation(o5_scenarios[t[1]], t[2])
       IN  /\ t5_state' = [t5_state EXCEPT ![t] = IF out.ok THEN "done" ELSE "failed"]
           /\ t5_value' = [t5_value EXCEPT ![t] = Some(out.value)]
    /\ t5_finished' = Append(t5_finished, t)
    /\ UNCHANGED <<o5_scenarios, o5_n_workers, o5_pc, o5_i, o5_summary, r5_pc,
                   r5_results, r5_collected, r5_exc, t5_runs>>

\* self.results.append(future.result()) for the next future of the loop.
Run5Collect ==
    /\ UNCHANGED notRun5Vars
    /\ r5_pc = "collect"
    /\ \E seed \in CollectCandidates(r5_collected,
                                     o5_scenarios[o5_i + 1].n_simulations) :
         LET t == <<o5_i + 1, seed>>
         IN  /\ t5_state[t] \in {"done", "failed"}
             /\ r5_collected' = Append(r5_collected, seed)
             /\ IF t5_state[t] = "done"
                THEN /\ r5_results' = Append(r5_results, t5_value[t][1])
                     /\ UNCHANGED <<r5_pc, r5_exc>>
                ELSE /\ r5_pc' = "unwind"
                     /\ r5_exc' = t5_value[t]
                     /\ UNCHANGED r5_results
    /\ UNCHANGED <<o5_scenarios, o5_n_workers, o5_pc, o5_i, o5_summary,
                   t5_state, t5_value, t5_runs,
                   t5_finished>>

\* The loop over the futures is done, the executor is shut down, run_all
\* returns its DataFrame and the orchestrator stores it under scenario.name.
Run5Return ==
    /\ UNCHANGED notRun5Vars
    /\ r5_pc = "collect"
    /\ Len(r5_collected) = o5_scenarios[o5_i + 1].n_simulations
    /\ Unfinished5 = {}
    /\ o5_summary' = DictSet(o5_summary, o5_scenarios[o5_i + 1].name,
                             DataFrameRows(r5_results))
    /\ o5_i' = o5_i + 1
    /\ r5_pc' = "off"
    /\ UNCHANGED <<o5_scenarios, o5_n_workers, o5_pc, r5_results, r5_collected,
                   r5_exc, t5_state, t5_value, t5_runs,
                   t5_finished>>

\* future.result() raised: the with block waits for the tasks still queued or
\* running, then the exception leaves both run_all methods.
Run5Raise ==
    /\ UNCHANGED notRun5Vars
    /\ r5_pc = "unwind"
    /\ Unfinished5 = {}
    /\ o5_pc' = "raised"
    /\ r5_pc' = "off"
    /\ UNCHANGED <<o5_scenarios, o5_n_workers, o5_i, o5_summary, r5_results,
                   r5_collected, r5_exc, t5_state, t5_value, t5_runs,
                   t5_finished>>

\* The orchestrator's loop is exhausted.
Orch5Return ==
    /\ UNCHANGED notRun5Vars
    /\ o5_pc = "loop"
    /\ r5_pc = "off"
    /\ o5_i = Len(o5_scenarios)
    /\ o5_pc' = "returned"
    /\ UNCHANGED <<o5_scenarios, o5_n_workers, o5_i, o5_summary, r5_pc,
                   r5_results, r5_collected, r5_exc, t5_state, t5_value, t5_runs,
                   t5_finished>>

Run5Init ==
    /\ o5_scenarios \in UNION {[1..n -> ScenarioPool5] : n \in 0..MaxScenarios5}
    /\ o5_n_workers \in 1..MaxWorkers5
    /\ o5_pc = "loop"
    /\ o5_i = 0
    /\ o5_summary = <<>>
    /\ r5_pc = "off"
    /\ r5_results = <<>>
    /\ r5_collected = <<>>
    /\ r5_exc = None
    /\ t5_state = [t \in Tasks5 |-> "new"]
    /\ t5_value = [t \in Tasks5 |-> None]
    /\ t5_runs = [t \in Tasks5 |-> 0]
    /\ t5_finished = <<>>

Run5Idle ==
    /\ o5_scenarios = <<>>
    /\ o5_n_workers = 0
    /\ o5_pc = "off"
    /\ o5_i = 0
    /\ o5_summary = <<>>
    /\ r5_pc = "off"
    /\ r5_results = <<>>
    /\ r5_collected = <<>>
    /\ r5_exc = None
    /\ t5_state = <<>>
    /\ t5_value = <<>>
    /\ t5_runs = <<>>
    /\ t5_finished = <<>>

Run5Next ==
    \/ Run5Submit
    \/ \E t \in DOMAIN t5_state : Worker5Start(t)
    \/ \E t \in DOMAIN t5_state : Worker5Finish(t)
    \/ Run5Collect
    \/ Run5Return
    \/ Run5Raise
    \/ Orch5Return

\* ====================================================================
\* Example 2: one scenario, replication by replication
\* ====================================================================

\* Scenarios a single run is followed on: those of the orchestrators, two
\* with a non-zero correlation (one of them unseeded), each with 0..NumSims
\* replications.
ScenarioPool2 ==
    LET base == ScenarioPool \cup
                  {[Scenario2(1, "BonferronigMultipleTWithOLS", 2, 2)
                      EXCEPT !.dgp_params = [common_coef_val |-> 1, covar_corr |-> -1]],
                   [Scenario2(1, "BonferronigMultipleTWithOLS", 1, 2)
                      EXCEPT !.dgp_params = [common_coef_val |-> 1, covar_corr |-> -1],
                             !.first_seed = None]}
    IN  {[sc EXCEPT !.n_simulations = n] : sc \in base, n \in 0..NumSims}

\* Every decision stored in the first cell.
StoreDecisionFirst(test_decisions, sim_id, decision) ==
    [test_decisions EXCEPT ![1] = decision]

\* self.test_decisions[sim_id] = self.test.decision
StoreDecision(test_decisions, sim_id, decision) ==
    [test_decisions EXCEPT ![sim_id + 1] = decision]

\* dgp = scenario.dgp(**scenario.dgp_params); test = scenario.test();
\* runner = SimulationRunner(dgp, test); simulate allocates
\* test_decisions = np.empty(n_sim).
Scen2Construct ==
    /\ UNCHANGED notScen2Vars
    /\ q_pc = "construct"
    /\ IF DgpCtorRaises(q_scenario.dgp_params)
       THEN /\ q_pc' = "raised"
            /\ UNCHANGED <<q_dgp, q_test, q_test_decisions>>
       ELSE /\ q_pc' = "simulate"
            /\ q_dgp' = Some(q_scenario.dgp_params)
            /\ q_test' = Some([name |-> TestName(q_scenario.test)])
            /\ q_test_decisions' \in [1..q_scenario.n_simulations -> Uninitialised]
    /\ UNCHANGED <<q_scenario, q_sim_id, q_result, q_made>>

\* One iteration of simulate's loop: sample, test, store the decision.
Scen2Replication ==
    /\ UNCHANGED notScen2Vars
    /\ q_pc = "simulate"
    /\ q_sim_id < q_scenario.n_simulations
    /\ \E entropy \in 0..MaxEntropy :
         LET seed == SeedFor(q_scenario.first_seed, q_sim_id)
             data == Sample2(q_dgp[1], q_scenario.sample_size, seed, entropy)
         IN  IF RngRaises(seed) \/ TestRaises(data)
             THEN /\ q_pc' = "raised"
                  /\ UNCHANGED <<q_sim_id, q_test_decisions, q_made>>
             ELSE /\ q_test_decisions' =
                        StoreDecision(q_test_decisions, q_sim_id,
                                      Decision(q_scenario.test, data))
                  /\ q_made' = Append(q_made, Decision(q_scenario.test, data))
                  /\ q_sim_id' = q_sim_id + 1
                  /\ UNCHANGED q_pc
    /\ UNCHANGED <<q_scenario, q_dgp, q_test, q_result>>

\* simulate returns and summarize_results builds the result.
Scen2Summarize ==
    /\ UNCHANGED notScen2Vars
    /\ q_pc = "simulate"
    /\ q_sim_id = q_scenario.n_simulations
    /\ q_result' = Some([test |-> q_test[1].name,
                         rho |-> q_dgp[1].covar_corr,
                         common_coef_val |-> q_dgp[1].common_coef_val,
                         power |-> Mean(q_test_decisions)])
    /\ q_pc' = "returned"
    /\ UNCHANGED <<q_scenario, q_dgp, q_test, q_sim_id, q_test_decisions, q_made>>

Scen2Init ==
    /\ q_scenario \in ScenarioPool2
    /\ q_pc = "construct"
    /\ q_dgp = None
    /\ q_test = None
    /\ q_sim_id = 0
    /\ q_test_decisions = <<>>
    /\ q_result = None
    /\ q_made = <<>>

Scen2Idle ==
    /\ q_scenario = None
    /\ q_pc = "off"
    /\ q_dgp = None
    /\ q_test = None
    /\ q_sim_id = 0
    /\ q_test_decisions = <<>>
    /\ q_result = None
    /\ q_made = <<>>

Scen2Next == Scen2Construct \/ Scen2Replication \/ Scen2Summarize

\* ====================================================================
\* Example 4: run_simulation_for_seed
\* ====================================================================
MaxReplications == 2
MaxNValues == 2
MaxNUnits == 3

SeedPool4 == {0, 1, 4}

\* rng.choice([-1, 1], size=num_units) of the generator seeded with seed.
IndEffectsOf(seed, num_units) ==
    [u \in 1..num_units |-> IF (seed + u) % 2 = 0 THEN 1 ELSE -1]

\* generate_data(num_units, beta_mean, params, seed)
GenerateData(num_units, beta_mean, seed) ==
    LET ind_effects == IndEffectsOf(seed, num_units)
        data_plus == GenerateForEffect(ind_effects, PlusCallEffect, beta_mean + 100)
        data_minus == GenerateForEffect(ind_effects, MinusCallEffect, beta_mean - 100)
        shift == Cardinality(UnitsOf(data_plus))
    IN  data_plus \o [k \in DOMAIN data_minus |->
                        [data_minus[k] EXCEPT !.Unit = @ + shift]]

\* The rows a regression can use: those with an outcome and a covariate.
UsableRows(data) ==
    {k \in DOMAIN data : data[k].outcome # None /\ data[k].covariate # None}

\* pf.feols raises when no observation is left.
FeolsRaises(data) == UsableRows(data) = {}

\* The generator is seeded with the replication left out.
RngSeedWithoutReplication(seed, replication) == seed

\* seed=seed + replication
RngSeedOf(seed, replication) == seed + replication

\* The two rows appended for one (n_units, replication) pair.
ReplicationRows(seed, replication, n_units, data) ==
    << [seed |-> seed, replication |-> replication, n_units |-> n_units,
        model |-> "No Fixed Effects",
        coef_est |-> Cardinality(UsableRows(data))],
       [seed |-> seed, replication |-> replication, n_units |-> n_units,
        model |-> "With Fixed Effects",
        coef_est |-> Cardinality(UnitsOf(data))] >>

\* One iteration of the inner loop: generate the data, fit both models and
\* append the two rows.
SeedRunReplication ==
    /\ UNCHANGED notSeedRunVars
    /\ v_pc = "loop"
    /\ v_i <= Len(v_n_values)
    /\ v_replication < v_n_replications
    /\ LET n_units == v_n_values[v_i]
           rng_seed == RngSeedOf(v_seed, v_replication)
           data == GenerateData(n_units, -25, rng_seed)
       IN  /\ v_datasets' = Append(v_datasets,
                                   [n_units |-> n_units, rng_seed |-> rng_seed])
           /\ IF FeolsRaises(data)
              THEN /\ v_pc' = "raised"
                   /\ UNCHANGED <<v_results, v_i, v_replication>>
              ELSE /\ v_results' = v_results \o
                          ReplicationRows(v_seed, v_replication, n_units, data)
                   /\ IF v_replication + 1 < v_n_replications
                      THEN v_replication' = v_replication + 1 /\ v_i' = v_i
                      ELSE v_replication' = 0 /\ v_i' = v_i + 1
                   /\ UNCHANGED v_pc
    /\ UNCHANGED <<v_seed, v_n_replications, v_n_values>>

\* Both loops are exhausted: return pd.DataFrame(results).
SeedRunReturn ==
    /\ UNCHANGED notSeedRunVars
    /\ v_pc = "loop"
    /\ v_i > Len(v_n_values) \/ v_n_replications = 0
    /\ v_pc' = "returned"
    /\ UNCHANGED <<v_seed, v_n_replications, v_n_values, v_i, v_replication,
                   v_results, v_datasets>>

SeedRunInit ==
    /\ v_seed \in SeedPool4
    /\ v_n_replications \in 0..MaxReplications
    /\ v_n_values \in UNION {[1..n -> 1..MaxNUnits] : n \in 0..MaxNValues}
    /\ v_pc = "loop"
    /\ v_i = 1
    /\ v_replication = 0
    /\ v_results = <<>>
    /\ v_datasets = <<>>

SeedRunIdle ==
    /\ v_seed = 0
    /\ v_n_replications = 0
    /\ v_n_values = <<>>
    /\ v_pc = "off"
    /\ v_i = 0
    /\ v_replication = 0
    /\ v_results = <<>>
    /\ v_datasets = <<>>

SeedRunNext == SeedRunReplication \/ SeedRunReturn

\* ====================================================================
\* Example 4: main
\* ====================================================================
MaxSeeds4 == 3
MaxProcs4 == 2

\* SEEDS = N_REPLICATIONS * np.arange(n)
SeedsOf(n_replications, n) == [k \in 1..n |-> n_replications * (k - 1)]

\* The sample sizes main is run with.
NValuesPool == {<<1>>, <<2, 3>>}

\* The (n_units, replication) pairs of run_simulation_for_seed in loop order.
PairsOf(n_values, n_replications) ==
    [k \in 1..(Len(n_values) * n_replications) |->
        [n_units |-> n_values[((k - 1) \div n_replications) + 1],
         replication |-> (k - 1) % n_replications]]

RECURSIVE RowsOfPairs(_, _, _)
\* The rows appended for the first k pairs.
RowsOfPairs(seed, pairs, k) ==
    IF k = 0 THEN <<>>
    ELSE RowsOfPairs(seed, pairs, k - 1) \o
         ReplicationRows(seed, pairs[k].replication, pairs[k].n_units,
                         GenerateData(pairs[k].n_units, -25,
                                      RngSeedOf(seed, pairs[k].replication)))

\* run_simulation_for_seed(seed, n_replications, n_values, beta_mean, params):
\* the frame returned, or the exception of pf.feols.
RunSimulationForSeed(seed, n_replications, n_values) ==
    LET pairs == PairsOf(n_values, n_replications)
    IN  IF \E k \in DOMAIN pairs :
             FeolsRaises(GenerateData(pairs[k].n_units, -25,
                                      RngSeedOf(seed, pairs[k].replication)))
        THEN [ok |-> FALSE, value |-> "ValueError"]
        ELSE [ok |-> TRUE, value |-> RowsOfPairs(seed, pairs, Len(pairs))]

\* One task per distinct seed value.
FuturesOfDistinctSeeds(seeds) ==
    {k \in DOMAIN seeds : \A j \in 1..(k - 1) : seeds[j] # seeds[k]}

\* {executor.submit(...) for seed in SEEDS}: one future per element of SEEDS.
FuturesOf(seeds) == DOMAIN seeds

Running4 == {k \in DOMAIN m4_futures : m4_futures[k] = "running"}
Unfinished4 == {k \in DOMAIN m4_futures : m4_futures[k] \in {"pending", "running"}}
NotSubmitted4 == {k \in FuturesOf(m4_seeds) : m4_futures[k] = "new"}

\* solver_dgp_params.minimize() and process_solution().
Main4Solve ==
    /\ UNCHANGED notMain4Vars
    /\ m4_pc = "solve"
    /\ \E result \in OptimizeOutcomes :
         IF result.kind = "result" /\ result.success
         THEN /\ m4_mu_sigma_params' = Some(ProcessMuSigmaParams(result.x))
              /\ m4_pc' = "submit"
              /\ m4_pool' = "open"
              /\ UNCHANGED m4_exc
         ELSE /\ m4_pc' = "raised"
              /\ m4_exc' = IF result.kind = "raise" THEN Some("Exception")
                           ELSE Some("ValueError")
              /\ UNCHANGED <<m4_mu_sigma_params, m4_pool>>
    /\ UNCHANGED <<m4_seeds, m4_n_replications, m4_n_values, m4_max_workers,
                   m4_futures, m4_value, m4_submits, m4_runs, m4_yielded,
                   m4_all_results>>

\* The set comprehension submits the task of the next element of SEEDS.
Main4Submit ==
    /\ UNCHANGED notMain4Vars
    /\ m4_pc = "submit"
    /\ NotSubmitted4 # {}
    /\ LET k == CHOOSE k \in NotSubmitted4 : \A j \in NotSubmitted4 : k <= j
       IN  /\ m4_futures' = [m4_futures EXCEPT ![k] = "pending"]
           /\ m4_submits' = [m4_submits EXCEPT ![k] = @ + 1]
    /\ UNCHANGED <<m4_seeds, m4_n_replications, m4_n_values, m4_max_workers,
                   m4_pc, m4_pool, m4_mu_sigma_params, m4_value, m4_runs,
                   m4_yielded, m4_all_results, m4_exc>>

\* The set of futures is complete: the as_completed loop begins.
Main4Submitted ==
    /\ UNCHANGED notMain4Vars
    /\ m4_pc = "submit"
    /\ NotSubmitted4 = {}
    /\ m4_pc' = "collect"
    /\ UNCHANGED <<m4_seeds, m4_n_replications, m4_n_values, m4_max_workers,
                   m4_pool, m4_mu_sigma_params, m4_futures, m4_value,
                   m4_submits, m4_runs, m4_yielded, m4_all_results, m4_exc>>

\* A free worker process takes the oldest queued task.
Worker4Start(k) ==
    /\ UNCHANGED notMain4Vars
    /\ m4_futures[k] = "pending"
    /\ \A j \in DOMAIN m4_futures : m4_futures[j] = "pending" => j >= k
    /\ Cardinality(Running4) < m4_max_workers
    /\ m4_futures' = [m4_futures EXCEPT ![k] = "running"]
    /\ m4_runs' = [m4_runs EXCEPT ![k] = @ + 1]
    /\ UNCHANGED <<m4_seeds, m4_n_replications, m4_n_values, m4_max_workers,
                   m4_pc, m4_pool, m4_mu_sigma_params, m4_value, m4_submits,
                   m4_yielded, m4_all_results, m4_exc>>

\* run_simulation_for_seed returns or raises in its worker process.
Worker4Finish(k) ==
    /\ UNCHANGED notMain4Vars
    /\ m4_futures[k] = "running"
    /\ LET out == RunSimulationForSeed(m4_seeds[k], m4_n_replications, m4_n_values)
       IN  /\ m4_futures' = [m4_futures EXCEPT ![k] = IF out.ok THEN "done" ELSE "failed"]
           /\ m4_value' = [m4_value EXCEPT ![k] = Some(out.value)]
    /\ UNCHANGED <<m4_seeds, m4_n_replications, m4_n_values, m4_max_workers,
                   m4_pc, m4_pool, m4_mu_sigma_params, m4_submits, m4_runs,
                   m4_yielded, m4_all_results, m4_exc>>

\* as_completed yields a finished future it has not yielded yet;
\* all_results.append(future.result()).
Main4Collect ==
    /\ UNCHANGED notMain4Vars
    /\ m4_pc = "collect"
    /\ \E k \in FuturesOf(m4_seeds) \ Range(m4_yielded) :
         /\ m4_futures[k] \in {"done", "failed"}
         /\ m4_yielded' = Append(m4_yielded, k)
         /\ IF m4_futures[k] = "done"
            THEN /\ m4_all_results' = Append(m4_all_results, m4_value[k][1])
                 /\ UNCHANGED <<m4_pc, m4_exc>>
            ELSE /\ m4_pc' = "unwind"
                 /\ m4_exc' = m4_value[k]
                 /\ UNCHANGED m4_all_results
    /\ UNCHANGED <<m4_seeds, m4_n_replications, m4_n_values, m4_max_workers,
                   m4_pool, m4_mu_sigma_params, m4_futures, m4_value,
                   m4_submits, m4_runs>>

\* as_completed is exhausted and the with block ends.
Main4PoolExit ==
    /\ UNCHANGED notMain4Vars
    /\ m4_pc = "collect"
    /\ FuturesOf(m4_seeds) \subseteq Range(m4_yielded)
    /\ Unfinished4 = {}
    /\ m4_pc' = "concat"
    /\ m4_pool' = "exited"
    /\ UNCHANGED <<m4_seeds, m4_n_replications, m4_n_values, m4_max_workers,
                   m4_mu_sigma_params, m4_futures, m4_value, m4_submits,
                   m4_runs, m4_yielded, m4_all_results, m4_exc>>

\* future.result() raised: the with block waits for the tasks still queued or
\* running, then the exception leaves main.
Main4PoolRaise ==
    /\ UNCHANGED notMain4Vars
    /\ m4_pc = "unwind"
    /\ Unfinished4 = {}
    /\ m4_pc' = "raised"
    /\ m4_pool' = "unwound"
    /\ UNCHANGED <<m4_seeds, m4_n_replications, m4_n_values, m4_max_workers,
                   m4_mu_sigma_params, m4_futures, m4_value, m4_submits,
                   m4_runs, m4_yielded, m4_all_results, m4_exc>>

\* pd.concat(all_results) (raises on an empty list) and plot_kdes.
Main4Concat ==
    /\ UNCHANGED notMain4Vars
    /\ m4_pc = "concat"
    /\ IF m4_all_results = <<>>
       THEN m4_pc' = "raised" /\ m4_exc' = Some("ValueError")
       ELSE m4_pc' = "done" /\ UNCHANGED m4_exc
    /\ UNCHANGED <<m4_seeds, m4_n_replications, m4_n_values, m4_max_workers,
                   m4_pool, m4_mu_sigma_params, m4_futures, m4_value,
                   m4_submits, m4_runs, m4_yielded, m4_all_results>>

Main4Init ==
    /\ m4_n_replications \in 0..MaxReplications
    /\ m4_seeds \in {SeedsOf(m4_n_replications, n) : n \in 0..MaxSeeds4}
    /\ m4_n_values \in NValuesPool
    /\ m4_max_workers \in 1..MaxProcs4
    /\ m4_pc = "solve"
    /\ m4_pool = "none"
    /\ m4_mu_sigma_params = None
    /\ m4_futures = [k \in DOMAIN m4_seeds |-> "new"]
    /\ m4_value = [k \in DOMAIN m4_seeds |-> None]
    /\ m4_submits = [k \in DOMAIN m4_seeds |-> 0]
    /\ m4_runs = [k \in DOMAIN m4_seeds |-> 0]
    /\ m4_yielded = <<>>
    /\ m4_all_results = <<>>
    /\ m4_exc = None

Main4Idle ==
    /\ m4_n_replications = 0
    /\ m4_seeds = <<>>
    /\ m4_n_values = <<>>
    /\ m4_max_workers = 0
    /\ m4_pc = "off"
    /\ m4_pool = "none"
    /\ m4_mu_sigma_params = None
    /\ m4_futures = <<>>
    /\ m4_value = <<>>
    /\ m4_submits = <<>>
    /\ m4_runs = <<>>
    /\ m4_yielded = <<>>
    /\ m4_all_results = <<>>
    /\ m4_exc = None

Main4Next ==
    \/ Main4Solve
    \/ Main4Submit
    \/ Main4Submitted
    \/ \E k \in DOMAIN m4_futures : Worker4Start(k)
    \/ \E k \in DOMAIN m4_futures : Worker4Finish(k)
    \/ Main4Collect
    \/ Main4PoolExit
    \/ Main4PoolRaise
    \/ Main4Concat

\* ====================================================================
\* Example 3: two run_simulations calls with equal arguments
\* ====================================================================

\* The first call has returned; run_simulations is called again with the
\* same true_vars, n_simulations, n_obs_list, alpha and seed. The generator
\* state the first call left behind is still there.
SimCallAgain ==
    /\ UNCHANGED notRepro3Sim3Vars
    /\ p3_calls = 1
    /\ s3_pc = "returned"
    /\ p3_first' = Some(s3_results)
    /\ p3_calls' = 2
    /\ s3_pc' = "enter"
    /\ s3_i' = 0
    /\ s3_j' = 0
    /\ s3_errors' = <<>>
    /\ s3_lengths' = <<>>
    /\ s3_coverage' = <<>>
    /\ s3_results' = <<>>
    /\ s3_cis' = <<>>
    /\ s3_cis_of' = <<>>
    /\ UNCHANGED <<s3_true_vars, s3_n_simulations, s3_n_obs_list, s3_alpha,
                   s3_seed, s3_rng>>

Repro3Init ==
    /\ p3_calls = 1
    /\ p3_first = None

Repro3Idle ==
    /\ p3_calls = 0
    /\ p3_first = None

Repro3Next == SimEnter \/ SimIteration \/ SimStore \/ SimReturn \/ SimCallAgain

\* ====================================================================
\* Specifications
\* ====================================================================

\* SimulationOrchestratorParallel.run_all on a scenario list.
InitOrch ==
    /\ OrchInit
    /\ RunnerIdle
    /\ Orch1Idle
    /\ GridIdle
    /\ Dgp5Idle
    /\ CiIdle
    /\ Sim3Idle
    /\ GmmIdle
    /\ GenIdle
    /\ Run5Idle
    /\ Scen2Idle
    /\ SeedRunIdle
    /\ Main4Idle
    /\ Repro3Idle
SpecOrch == InitOrch /\ [][OrchNext]_vars

\* The sequential and then the parallel orchestrator on one scenario list.
InitEquiv ==
    /\ EquivInit
    /\ RunnerIdle
    /\ Orch1Idle
    /\ GridIdle
    /\ Dgp5Idle
    /\ CiIdle
    /\ Sim3Idle
    /\ GmmIdle
    /\ GenIdle
    /\ Run5Idle
    /\ Scen2Idle
    /\ SeedRunIdle
    /\ Main4Idle
    /\ Repro3Idle
SpecEquiv == InitEquiv /\ [][EquivNext]_vars

\* Two SimulationRunner.simulate calls of example 1 with equal arguments.
InitRunner ==
    /\ OrchIdle
    /\ RunnerInit
    /\ Orch1Idle
    /\ GridIdle
    /\ Dgp5Idle
    /\ CiIdle
    /\ Sim3Idle
    /\ GmmIdle
    /\ GenIdle
    /\ Run5Idle
    /\ Scen2Idle
    /\ SeedRunIdle
    /\ Main4Idle
    /\ Repro3Idle
SpecRunner == InitRunner /\ [][RunnerNext]_vars

\* SimulationOrchestrator.run_all of example 1 on a scenario list.
InitOrch1 ==
    /\ OrchIdle
    /\ RunnerIdle
    /\ Orch1Init
    /\ GridIdle
    /\ Dgp5Idle
    /\ CiIdle
    /\ Sim3Idle
    /\ GmmIdle
    /\ GenIdle
    /\ Run5Idle
    /\ Scen2Idle
    /\ SeedRunIdle
    /\ Main4Idle
    /\ Repro3Idle
SpecOrch1 == InitOrch1 /\ [][Orch1Next]_vars

\* Execution of the scenario-list comprehensions of examples 1 and 2.
InitGrid ==
    /\ OrchIdle
    /\ RunnerIdle
    /\ Orch1Idle
    /\ GridInit
    /\ Dgp5Idle
    /\ CiIdle
    /\ Sim3Idle
    /\ GmmIdle
    /\ GenIdle
    /\ Run5Idle
    /\ Scen2Idle
    /\ SeedRunIdle
    /\ Main4Idle
    /\ Repro3Idle
SpecGrid == InitGrid /\ [][GridNext]_vars

\* SKImbalancedTwoClassesDGP.sample of example 5.
InitDgp5 ==
    /\ OrchIdle
    /\ RunnerIdle
    /\ Orch1Idle
    /\ GridIdle
    /\ Dgp5Init
    /\ CiIdle
    /\ Sim3Idle
    /\ GmmIdle
    /\ GenIdle
    /\ Run5Idle
    /\ Scen2Idle
    /\ SeedRunIdle
    /\ Main4Idle
    /\ Repro3Idle
SpecDgp5 == InitDgp5 /\ [][Dgp5Next]_vars

\* asymptotic_ci_variance of example 3.
InitCi ==
    /\ OrchIdle
    /\ RunnerIdle
    /\ Orch1Idle
    /\ GridIdle
    /\ Dgp5Idle
    /\ CiInit
    /\ Sim3Idle
    /\ GmmIdle
    /\ GenIdle
    /\ Run5Idle
    /\ Scen2Idle
    /\ SeedRunIdle
    /\ Main4Idle
    /\ Repro3Idle
SpecCi == InitCi /\ [][CiNext]_vars

\* run_simulations of example 3.
InitSim3 ==
    /\ OrchIdle
    /\ RunnerIdle
    /\ Orch1Idle
    /\ GridIdle
    /\ Dgp5Idle
    /\ CiIdle
    /\ Sim3Init
    /\ GmmIdle
    /\ GenIdle
    /\ Run5Idle
    /\ Scen2Idle
    /\ SeedRunIdle
    /\ Main4Idle
    /\ Repro3Idle
SpecSim3 == InitSim3 /\ [][Sim3Next]_vars

\* Calls of minimize and process_solution on one GMMSolver of example 4.
InitGmm ==
    /\ OrchIdle
    /\ RunnerIdle
    /\ Orch1Idle
    /\ GridIdle
    /\ Dgp5Idle
    /\ CiIdle
    /\ Sim3Idle
    /\ GmmInit
    /\ GenIdle
    /\ Run5Idle
    /\ Scen2Idle
    /\ SeedRunIdle
    /\ Main4Idle
    /\ Repro3Idle
SpecGmm == InitGmm /\ [][GmmNext]_vars

\* generate_data of example 4.
InitGen ==
    /\ OrchIdle
    /\ RunnerIdle
    /\ Orch1Idle
    /\ GridIdle
    /\ Dgp5Idle
    /\ CiIdle
    /\ Sim3Idle
    /\ GmmIdle
    /\ GenInit
    /\ Run5Idle
    /\ Scen2Idle
    /\ SeedRunIdle
    /\ Main4Idle
    /\ Repro3Idle
SpecGen == InitGen /\ [][GenNext]_vars

\* SimulationOrchestrator.run_all of example 5 with its runners and their thread pools.
InitRun5 ==
    /\ OrchIdle
    /\ RunnerIdle
    /\ Orch1Idle
    /\ GridIdle
    /\ Dgp5Idle
    /\ CiIdle
    /\ Sim3Idle
    /\ GmmIdle
    /\ GenIdle
    /\ Run5Init
    /\ Scen2Idle
    /\ SeedRunIdle
    /\ Main4Idle
    /\ Repro3Idle
SpecRun5 == InitRun5 /\ [][Run5Next]_vars

\* One _run_single_scenario call of example 2.
InitScen2 ==
    /\ OrchIdle
    /\ RunnerIdle
    /\ Orch1Idle
    /\ GridIdle
    /\ Dgp5Idle
    /\ CiIdle
    /\ Sim3Idle
    /\ GmmIdle
    /\ GenIdle
    /\ Run5Idle
    /\ Scen2Init
    /\ SeedRunIdle
    /\ Main4Idle
    /\ Repro3Idle
SpecScen2 == InitScen2 /\ [][Scen2Next]_vars

\* run_simulation_for_seed of example 4.
InitSeedRun ==
    /\ OrchIdle
    /\ RunnerIdle
    /\ Orch1Idle
    /\ GridIdle
    /\ Dgp5Idle
    /\ CiIdle
    /\ Sim3Idle
    /\ GmmIdle
    /\ GenIdle
    /\ Run5Idle
    /\ Scen2Idle
    /\ SeedRunInit
    /\ Main4Idle
    /\ Repro3Idle
SpecSeedRun == InitSeedRun /\ [][SeedRunNext]_vars

\* main of example 4 with its process pool.
InitMain4 ==
    /\ OrchIdle
    /\ RunnerIdle
    /\ Orch1Idle
    /\ GridIdle
    /\ Dgp5Idle
    /\ CiIdle
    /\ Sim3Idle
    /\ GmmIdle
    /\ GenIdle
    /\ Run5Idle
    /\ Scen2Idle
    /\ SeedRunIdle
    /\ Main4Init
    /\ Repro3Idle
SpecMain4 == InitMain4 /\ [][Main4Next]_vars

\* Two run_simulations calls of example 3 with equal arguments.
InitRepro3 ==
    /\ OrchIdle
    /\ RunnerIdle
    /\ Orch1Idle
    /\ GridIdle
    /\ Dgp5Idle
    /\ CiIdle
    /\ Sim3Init
    /\ GmmIdle
    /\ GenIdle
    /\ Run5Idle
    /\ Scen2Idle
    /\ SeedRunIdle
    /\ Main4Idle
    /\ Repro3Init
SpecRepro3 == InitRepro3 /\ [][Repro3Next]_vars

\* ====================================================================
\* Properties of the orchestrators of example 2
\* ====================================================================

\* C1: when the parallel run_all has returned normally, summary_results
\* holds exactly one result per scenario: as many entries as scenarios, and
\* for every scenario exactly one entry, which is the value of its future.
Thm_C1_OneResultPerScenario ==
    pc = "returned" =>
        /\ Len(summary_results) = Len(scenarios)
        /\ \A i \in 1..N :
             /\ Cardinality({k \in DOMAIN appended_by : appended_by[k].future = i}) = 1
             /\ \E k \in DOMAIN summary_results :
                  /\ appended_by[k].future = i
                  /\ fvalue[i].ok
                  /\ summary_results[k] = fvalue[i].value

\* A run with two workers that returned its results out of submission order.
Wit_C1_ReturnedOutOfOrder ==
    /\ pc = "returned"
    /\ N = 2
    /\ max_workers = 2
    /\ appended_by[1].future = 2

\* C2: once both orchestrators have returned on the same scenario list, the
\* two summary_results lists hold the same multiset of result dictionaries.
Cex_C2_SameMultisetAsSequential ==
    (seq_pc = "returned" /\ pc = "returned") =>
        SameMultiset(seq_results, summary_results)

\* C3: a failed future that the loop collects makes run_all propagate that
\* very exception (run_all never returns normally once a task has failed),
\* no task is started twice, and summary_results holds entries of
\* successful futures only.
Thm_C3_ExceptionsPropagate ==
    /\ \A i \in yielded :
         fstate[i] = "failed" =>
            /\ raised = Some(<<i, fvalue[i].exc>>)
            /\ pc \in {"exit", "raised"}
    /\ pc = "raised" =>
         /\ raised # None
         /\ fstate[raised[1][1]] = "failed"
         /\ raised[1][1] \in yielded
    /\ pc = "returned" => \A i \in 1..N : fstate[i] = "done"
    /\ \A i \in 1..N : attempts[i] <= 1
    /\ \A k \in DOMAIN summary_results :
         /\ fstate[appended_by[k].future] = "done"
         /\ summary_results[k] = fvalue[appended_by[k].future].value
    /\ Len(summary_results) = Cardinality({i \in yielded : fstate[i] = "done"})

\* run_all has raised the exception of a task whose sampling failed, after a
\* successful result had been collected.
Wit_C3_RaisedAfterPartial ==
    /\ pc = "raised"
    /\ raised[1][2] = "sample"
    /\ Len(summary_results) = 1

\* C4: the tasks share no DGP, test or runner object (the objects of any two
\* tasks are distinct, and a task's three objects are distinct), and every
\* append to summary_results is made by the thread that called run_all.
ObjectsOf(i) ==
    IF fobjs[i] = None THEN {}
    ELSE {fobjs[i].dgp, fobjs[i].test, fobjs[i].runner}

Thm_C4_TasksIndependent ==
    /\ \A i \in 1..N :
         fobjs[i] # None => Cardinality(ObjectsOf(i)) = 3
    /\ \A i, j \in 1..N :
         i # j => ObjectsOf(i) \cap ObjectsOf(j) = {}
    /\ \A k \in DOMAIN appended_by : appended_by[k].thread = "main"

\* Both tasks have been started on their own objects, and the result of one
\* has been appended while the other is still running on a worker thread.
Wit_C4_TwoConcurrentTasks ==
    /\ N = 2
    /\ \A i \in 1..N : fobjs[i] # None
    /\ Cardinality(Running) = 1
    /\ Len(summary_results) = 1

\* ====================================================================
\* Properties of the runner of example 1
\* ====================================================================

\* The operations of n replications in program order.
RECURSIVE ReplicationOrder(_)
ReplicationOrder(n) ==
    IF n = 0 THEN <<>>
    ELSE ReplicationOrder(n - 1)
            \o << <<"sample", n - 1>>, <<"fit", n - 1>>, <<"record", n - 1>> >>

\* C5: when simulate has returned, errors has n_sim entries, entry sim_id is
\* the beta1_hat fitted on the data drawn in replication sim_id minus
\* dgp.beta1, and every replication sampled, then fitted, then recorded.
Thm_C5_ErrorsPerReplication ==
    \A c \in DOMAIN r_pc :
        r_pc[c] = "done" =>
            /\ Len(r_errors[c]) = r_n_sim
            /\ Len(r_sampled[c]) = r_n_sim
            /\ \A k \in 1..r_n_sim :
                 r_errors[c][k] =
                    Beta1Hat(r_estimator_type, r_sampled[c][k]) - r_dgp.beta1
            /\ r_trace[c] = ReplicationOrder(r_n_sim)

\* A finished call of three replications whose first two draws, and the
\* errors stored for them, differ.
Wit_C5_DistinctReplications ==
    /\ r_pc # <<>>
    /\ r_pc[1] = "done"
    /\ r_n_sim = 3
    /\ r_sampled[1][1] # r_sampled[1][2]
    /\ r_errors[1][1] # r_errors[1][2]

\* C6: for an integer first_seed, replication sim_id passes the seed
\* first_seed + sim_id to dgp.sample, and two simulate calls with the same
\* arguments store identical errors.
Cex_C6_SeedIsFirstSeedPlusSimId ==
    r_first_seed # None =>
        /\ \A c \in DOMAIN r_seeds :
             \A k \in DOMAIN r_seeds[c] :
                r_seeds[c][k] = Some(r_first_seed[1] + (k - 1))
        /\ (r_pc # <<>> /\ r_pc[1] = "done" /\ r_pc[2] = "done") =>
                r_errors[1] = r_errors[2]

\* ====================================================================
\* Properties of the orchestrator of example 1 and of the scenario grids
\* ====================================================================

\* C7: when run_all of example 1 has returned, summary_results[s.name] is,
\* for every scenario s, the mean of the errors of the runner that simulated
\* s, and summary_results has as many entries as there are scenarios.
Cex_C7_OneEntryPerScenario ==
    o1_pc = "returned" =>
        /\ \A i \in 1..Len(o1_scenarios) :
             /\ o1_scenarios[i].name \in DOMAIN o1_summary
             /\ o1_summary[o1_scenarios[i].name] = o1_runner_means[i]
        /\ Cardinality(DOMAIN o1_summary) = Len(o1_scenarios)

\* C8: the finished scenario list holds exactly one scenario for every
\* combination of one element of each component list; example 1's full list
\* has 4 x 3 x 2 = 24 scenarios with pairwise distinct names, and example 2's
\* has exactly one scenario per ((common_coef_val, covar_corr), test, sample
\* size) combination.
Thm_C8_CartesianGrid ==
    g_pc = "done" =>
        /\ Len(g_scenarios) = Len(g_lists[1]) * Len(g_lists[2]) * Len(g_lists[3])
        /\ \A a \in DOMAIN g_lists[1] : \A b \in DOMAIN g_lists[2] :
             \A c \in DOMAIN g_lists[3] :
                Cardinality({k \in DOMAIN g_scenarios :
                    g_scenarios[k] = MakeScenario(g_example, g_lists[1][a],
                                                  g_lists[2][b], g_lists[3][c])}) = 1
        /\ g_example = 1 =>
             /\ \A k, l \in DOMAIN g_scenarios :
                  k # l => g_scenarios[k].name # g_scenarios[l].name
             /\ g_lists = ComponentLists(1) => Len(g_scenarios) = 24
        /\ (g_example = 2 /\ g_lists = ComponentLists(2)) =>
             /\ Len(g_scenarios) = NumCoefVals * NumCorrVals * 2
             /\ \A i \in 0..(NumCoefVals - 1) : \A j \in 0..(NumCorrVals - 1) :
                  \A t \in {"WaldWithOLS", "BonferronigMultipleTWithOLS"} :
                     Cardinality({k \in DOMAIN g_scenarios :
                        /\ g_scenarios[k].dgp_params =
                              {<<"common_coef_val", Linspace(-175, 175, NumCoefVals, i)>>,
                               <<"covar_corr", Linspace(-99, 99, NumCorrVals, j)>>}
                        /\ g_scenarios[k].test = t
                        /\ g_scenarios[k].sample_size = 200}) = 1

\* The full list of example 1 has been built.
Wit_C8_FullGridOfExample1 ==
    /\ g_pc = "done"
    /\ g_example = 1
    /\ g_lists = ComponentLists(1)
    /\ Len(g_scenarios) = 24
    /\ g_scenarios[24].name = "dynamicnormaldgp_high_pers_simpleridge_n200"

\* ====================================================================
\* Properties of the DGP of example 5 and of the interval of example 3
\* ====================================================================

\* C9: sample returns a training set of exactly n_train_samples points and a
\* test set of exactly n_test_samples points, X and y of equal lengths.
Cex_C9_SplitSizes ==
    d_pc = "sampled" =>
        /\ d_split.X_train = d_n_train_samples
        /\ d_split.X_test = d_n_test_samples
        /\ d_split.y_train = d_split.X_train
        /\ d_split.y_test = d_split.X_test

FractionCovering(cis, true_var) ==
    Mean([k \in DOMAIN cis |->
            IF cis[k][1] <= Scaled(true_var) /\ Scaled(true_var) <= cis[k][2]
            THEN 1 ELSE 0])

InUnitInterval(q) == q # NaN /\ 0 <= q[1] /\ q[1] <= q[2]

\* The entry of every combination exists, holds n_simulations errors and
\* lengths, and its coverage is the fraction of its intervals covering
\* true_var.
EntriesComplete ==
    \A n_obs \in Range(s3_n_obs_list), true_var \in Range(s3_true_vars) :
        /\ n_obs \in DOMAIN s3_results
        /\ true_var \in DOMAIN s3_results[n_obs]
        /\ LET e == s3_results[n_obs][true_var]
               cis == s3_cis_of[<<n_obs, true_var>>]
           IN  /\ Len(e.errors) = s3_n_simulations
               /\ Len(e.lengths) = s3_n_simulations
               /\ Len(cis) = s3_n_simulations
               /\ e.coverage = FractionCovering(cis, true_var)

\* C11, as stated: when run_simulations has returned, every combination of
\* n_obs and true_var has an entry with n_simulations errors and lengths,
\* whose coverage is the fraction of covering intervals and lies in [0, 1].
Cex_C11_CoverageInUnitInterval ==
    s3_pc = "returned" =>
        /\ EntriesComplete
        /\ \A n_obs \in Range(s3_n_obs_list), true_var \in Range(s3_true_vars) :
             InUnitInterval(s3_results[n_obs][true_var].coverage)

\* C11, amended: when run_simulations has returned, every combination has an
\* entry with n_simulations errors and lengths whose coverage is the fraction
\* of covering intervals; the coverage lies in [0, 1] when n_simulations >= 1
\* and is nan when n_simulations = 0.
Thm_C11_EntriesAndCoverage ==
    s3_pc = "returned" =>
        /\ EntriesComplete
        /\ \A n_obs \in Range(s3_n_obs_list), true_var \in Range(s3_true_vars) :
             LET c == s3_results[n_obs][true_var].coverage
             IN  IF s3_n_simulations >= 1 THEN InUnitInterval(c) ELSE c = NaN

\* A returned run over two sample sizes and two variances in which one entry
\* has a coverage strictly between 0 and 1.
Wit_C11_PartialCoverage ==
    /\ s3_pc = "returned"
    /\ Cardinality(Range(s3_n_obs_list)) = 2
    /\ Cardinality(Range(s3_true_vars)) = 2
    /\ s3_n_simulations = MaxSims3
    /\ \E n_obs \in Range(s3_n_obs_list), true_var \in Range(s3_true_vars) :
         LET c == s3_results[n_obs][true_var].coverage
         IN  c # NaN /\ 0 < c[1] /\ c[1] < c[2]

\* ====================================================================
\* Properties of GMMSolver of example 4
\* ====================================================================

\* C12: after a minimize call either the optimizer succeeded, nothing was
\* raised and estimated_params is its solution, or ValueError was raised
\* for a reported failure (or the objective's own exception escaped) and
\* estimated_params is what it was before the call; estimated_params is
\* always the array of __init__ or the solution of the last success.
Thm_C12_MinimizeStoresOnlySuccess ==
    /\ gm_last = "minimize_ok" =>
          /\ gm_result.success
          /\ gm_raised = None
          /\ gm_estimated_params = gm_result.x
    /\ gm_last = "minimize_failed" =>
          /\ gm_raised = Some("ValueError")
          /\ gm_estimated_params = gm_before
    /\ gm_last = "minimize_error" =>
          /\ gm_raised # None
          /\ gm_estimated_params = gm_before
    /\ gm_last # "off" =>
          gm_estimated_params =
              (IF gm_solution = None THEN gm_initial ELSE gm_solution[1])

\* A failed optimization after a successful one, ending at other parameters
\* than the stored ones.
Wit_C12_FailureAfterSuccess ==
    /\ gm_last = "minimize_failed"
    /\ gm_solution # None
    /\ gm_result.x # gm_estimated_params

\* C18: process_solution returns process_func(estimated_params), or
\* {"parameters": estimated_params} without a process_func, where
\* estimated_params is the solution stored by a preceding successful
\* minimize call, and leaves estimated_params as it was.
Cex_C18_ProcessesStoredSolution ==
    gm_last = "process" =>
        /\ gm_solution # None
        /\ gm_estimated_params = gm_solution[1]
        /\ gm_estimated_params = gm_before
        /\ gm_returned =
              (IF gm_process_func = None
               THEN Some([parameters |-> gm_solution[1]])
               ELSE Some(ProcessMuSigmaParams(gm_solution[1])))

\* ====================================================================
\* Properties of generate_data of example 4
\* ====================================================================

\* The units generated in a group: those with an outcome in some row.
GeneratedUnits(data) ==
    {data[k].Unit : k \in {j \in DOMAIN data : data[j].outcome # None}}

\* C13: the returned frame is a num_units x 2 panel (num_units units, each
\* with exactly the periods 0 and 1), every generated row of a unit carries
\* the effect drawn for that unit and the slope beta_mean + 1 for +1 and
\* beta_mean - 1 for -1, the two group sizes sum to num_units, and the unit
\* ids of the two groups are disjoint.
Cex_C13_PanelOfTwoGroups ==
    gd_pc = "returned" =>
        /\ Cardinality(UnitsOf(gd_data)) = gd_num_units
        /\ \A u \in UnitsOf(gd_data) :
             /\ Cardinality({k \in DOMAIN gd_data : gd_data[k].Unit = u}) = 2
             /\ {gd_data[k].Period : k \in {j \in DOMAIN gd_data : gd_data[j].Unit = u}}
                    = {0, 1}
        /\ \A k \in DOMAIN gd_data :
             /\ gd_data[k].outcome # None
             /\ gd_data[k].outcome[1].beta = gd_beta_mean + 100 * gd_data[k].outcome[1].effect
        /\ \A k \in DOMAIN gd_data :
             gd_data[k].effects # None =>
                 gd_data[k].outcome[1].effect = gd_data[k].effects[1]
        /\ Cardinality(GeneratedUnits(gd_data_plus))
              + Cardinality(GeneratedUnits(gd_data_minus)) = gd_num_units
        /\ UnitsOf(gd_data_plus) \cap UnitsOf(gd_data_minus) = {}

\* ====================================================================
\* Properties of the runner and orchestrator of example 5
\* ====================================================================

\* C14: at no time are more than n_workers _run_single_simulation calls
\* executing, and the calls executing at any time all belong to the scenario
\* the orchestrator's loop is at.
Thm_C14_BoundedPerScenario ==
    /\ Cardinality(Running5) <= o5_n_workers
    /\ \A t \in Running5 : t[1] = o5_i + 1

\* The second scenario's simulations occupy all workers after the first
\* scenario has been stored.
Wit_C14_SecondScenarioRunning ==
    /\ o5_i = 1
    /\ DOMAIN o5_summary # {}
    /\ o5_n_workers = 2
    /\ Cardinality(Running5) = 2

\* C15: when a runner's run_all is through its futures, every seed in
\* 0..n_simulations-1 was run exactly once and results[seed + 1] is the
\* dictionary the simulation of that seed returned.
Thm_C15_ResultsInSeedOrder ==
    (r5_pc = "collect" /\ Len(r5_collected) = o5_scenarios[o5_i + 1].n_simulations) =>
        /\ Len(r5_results) = o5_scenarios[o5_i + 1].n_simulations
        /\ \A seed \in 0..(o5_scenarios[o5_i + 1].n_simulations - 1) :
             /\ t5_runs[<<o5_i + 1, seed>>] = 1
             /\ r5_results[seed + 1] = t5_value[<<o5_i + 1, seed>>][1]
             /\ \A k \in DOMAIN r5_results[seed + 1] :
                  r5_results[seed + 1][k][2].fitted_on[1] = seed

\* The simulation of seed 1 finished while that of seed 0 was still running,
\* and both results have been collected.
Wit_C15_FinishedOutOfOrder ==
    /\ r5_pc = "collect"
    /\ Len(r5_results) = 2
    /\ t5_finished = << <<o5_i + 1, 1>>, <<o5_i + 1, 0>> >>

\* C16: every dictionary a single simulation returned has exactly one
\* metrics entry per algorithm of algorithm_types, the i-th for the i-th
\* class built with the i-th keyword dictionary, and the DataFrame stored
\* for a scenario has n_simulations * len(algorithm_types) rows.
Cex_C16_OneEntryPerAlgorithm ==
    /\ \A t \in DOMAIN t5_state :
         t5_state[t] = "done" =>
             LET s == o5_scenarios[t[1]]
                 sim_results == t5_value[t][1]
             IN  /\ Len(sim_results) = Len(s.algorithms)
                 /\ \A i \in DOMAIN sim_results :
                      sim_results[i][2].algo = <<s.algorithms[i], s.algorithm_kwargs_list[i]>>
    /\ \A i \in 1..o5_i :
         Len(o5_summary[o5_scenarios[i].name])
             = o5_scenarios[i].n_simulations * Len(o5_scenarios[i].algorithms)

\* ====================================================================
\* Properties of the results of example 2
\* ====================================================================

\* C17: the dictionary summarize_results returns names the runner's test,
\* its DGP's covar_corr and common_coef_val, and, when n_sim >= 1, its power
\* is the number of rejecting replications divided by n_sim, within [0, 1].
Thm_C17_SelfIdentifyingResult ==
    q_pc = "returned" =>
        LET r == q_result[1]
            n_sim == q_scenario.n_simulations
            rejections == Cardinality({k \in DOMAIN q_made : q_made[k] = 1})
        IN  /\ r.test = (IF q_scenario.test = "WaldWithOLS" THEN "Wald"
                         ELSE "Bonferroni t")
            /\ r.rho = q_scenario.dgp_params.covar_corr
            /\ r.common_coef_val = q_scenario.dgp_params.common_coef_val
            /\ n_sim >= 1 =>
                  /\ r.power # NaN
                  /\ r.power[1] * n_sim = rejections * r.power[2]
                  /\ 0 <= r.power[1] /\ r.power[1] <= r.power[2]

\* A Bonferroni result at a non-zero correlation with a power strictly
\* between 0 and 1.
Wit_C17_PartialPower ==
    /\ q_pc = "returned"
    /\ q_result[1].test = "Bonferroni t"
    /\ q_result[1].rho # 0
    /\ q_result[1].power # NaN
    /\ 0 < q_result[1].power[1]
    /\ q_result[1].power[1] < q_result[1].power[2]

\* ====================================================================
\* Properties of run_simulation_for_seed of example 4
\* ====================================================================

\* C19: the frame returned has 2 * len(n_values) * n_replications rows; the
\* k-th (n_units, replication) pair, in loop order, had one dataset
\* generated with RNG seed seed + replication and has a "No Fixed Effects"
\* row followed by a "With Fixed Effects" row, both with the seed, the
\* replication and n_units.
Thm_C19_TwoRowsPerReplication ==
    v_pc = "returned" =>
        /\ Len(v_results) = 2 * Len(v_n_values) * v_n_replications
        /\ Len(v_datasets) = Len(v_n_values) * v_n_replications
        /\ \A i \in DOMAIN v_n_values, replication \in 0..(v_n_replications - 1) :
             LET k == (i - 1) * v_n_replications + replication + 1
             IN  /\ v_datasets[k] = [n_units |-> v_n_values[i],
                                     rng_seed |-> v_seed + replication]
                 /\ v_results[2 * k - 1].model = "No Fixed Effects"
                 /\ v_results[2 * k].model = "With Fixed Effects"
                 /\ \A r \in {v_results[2 * k - 1], v_results[2 * k]} :
                      /\ r.seed = v_seed
                      /\ r.replication = replication
                      /\ r.n_units = v_n_values[i]

\* A returned run over two sample sizes with two replications each.
Wit_C19_FullRun ==
    /\ v_pc = "returned"
    /\ Len(v_n_values) = 2
    /\ v_n_values[1] # v_n_values[2]
    /\ v_n_replications = 2
    /\ Len(v_results) = 8

\* ====================================================================
\* Properties of main of example 4
\* ====================================================================

\* C20: main calls executor.submit exactly once for each element of SEEDS
\* and no task is started twice; once the with block has ended normally,
\* all_results has len(SEEDS) entries, and they are the frames of the
\* elements of SEEDS, each exactly once, in the order the futures were
\* yielded.
Thm_C20_OneFramePerSeed ==
    /\ \A k \in DOMAIN m4_seeds : m4_submits[k] <= 1 /\ m4_runs[k] <= m4_submits[k]
    /\ m4_pc \in {"collect", "unwind"} \/ m4_pool \in {"exited", "unwound"} =>
         \A k \in DOMAIN m4_seeds : m4_submits[k] = 1
    /\ m4_pool = "exited" =>
         /\ Len(m4_all_results) = Len(m4_seeds)
         /\ Len(m4_yielded) = Len(m4_seeds)
         /\ Range(m4_yielded) = DOMAIN m4_seeds
         /\ \A k \in DOMAIN m4_seeds : m4_runs[k] = 1
         /\ \A j \in DOMAIN m4_all_results :
              LET out == RunSimulationForSeed(m4_seeds[m4_yielded[j]],
                                              m4_n_replications, m4_n_values)
              IN  out.ok /\ m4_all_results[j] = out.value

\* The with block has ended normally with three non-empty frames, collected
\* in another order than the seeds were submitted in.
Wit_C20_CollectedOutOfOrder ==
    /\ m4_pool = "exited"
    /\ Len(m4_seeds) = 3
    /\ m4_yielded[1] # 1
    /\ \A j \in DOMAIN m4_all_results : m4_all_results[j] # <<>>

\* ====================================================================
\* Properties of two run_simulations calls of example 3
\* ====================================================================

\* C21: when the second of two run_simulations calls with the same
\* true_vars, n_simulations, n_obs_list, alpha and seed has returned, its
\* dictionary equals the one the first call returned: the same coverage,
\* errors and lengths under every (n_obs, true_var).
Thm_C21_Reproducible ==
    p3_calls = 2 /\ s3_pc = "returned" => s3_results = p3_first[1]

\* The second call has returned the dictionary of the first one, over two
\* sample sizes and a non-zero variance, with two replications whose
\* errors differ.
Wit_C21_SecondCallReturned ==
    /\ p3_calls = 2
    /\ s3_pc = "returned"
    /\ s3_results = p3_first[1]
    /\ s3_n_simulations = 2
    /\ Len(s3_n_obs_list) = 2
    /\ s3_n_obs_list[1] # s3_n_obs_list[2]
    /\ \E n \in DOMAIN s3_results : \E tv \in DOMAIN s3_results[n] :
         /\ tv # 0
         /\ s3_results[n][tv].errors[1] # s3_results[n][tv].errors[2]

\* ====================================================================
\* Failure of a task during SimulationOrchestratorParallel.run_all
\* ====================================================================

\* C22: once future.result() has raised in the loop of run_all, no step
\* changes summary_results any more and no further future is collected;
\* summary_results then holds exactly the results of the futures collected
\* before the failing one; and when run_all has raised, every submitted task
\* has been started once and has finished.
Thm_C22_PartialResultsOnFailure ==
    /\ [][raised # None =>
            summary_results' = summary_results /\ yielded' = yielded]_vars
    /\ [](raised # None =>
            /\ Len(summary_results) = Cardinality(yielded) - 1
            /\ \A k \in DOMAIN summary_results :
                 /\ appended_by[k].future \in yielded \ {raised[1][1]}
                 /\ summary_results[k] = fvalue[appended_by[k].future].value)
    /\ [](pc = "raised" =>
            /\ raised # None
            /\ \A i \in 1..N : Finished(i) /\ attempts[i] = 1)

\* The exception of the first task has been raised in the loop while the
\* second task was still queued behind it.
Wit_C22_FailureWhileTaskQueued ==
    /\ pc = "exit"
    /\ raised # None
    /\ N = 2
    /\ raised[1][1] = 1
    /\ fstate[2] = "pending"
    /\ summary_results = <<>>

====
